---- MODULE Spec2Model ----
(***************************************************************************)
(* Slack reaction mirror (tools/slack-reaction-mirror): the backfill       *)
(* scanner (slack-reaction-mirror.ts, second program of the file, lines    *)
(* 354-1144) and the live watcher (slack-reaction-mirror-watch.ts), over   *)
(* one shared model of the remote Slack workspace.                         *)
(*                                                                         *)
(* Text is modelled as a sequence of tokens.  A token is an atomic piece   *)
(* of text (a word, one punctuation character, one blank); the operators   *)
(* below do to token sequences what the JavaScript string and RegExp       *)
(* methods of the source do to strings.                                    *)
(***************************************************************************)
EXTENDS Integers, Sequences, FiniteSets, TLC

None == "none"

\* ------------------------------------------------------------------ text

\* String.prototype.toLowerCase on one token: the tokens that hold upper-case
\* letters, each with its lower-case form.
LowerMap ==
  [t \in {"FROM", "From", "U1", "U2", "U3", "SALEM", "Salem", "ROCKET", "Rocket",
          "V", "SKIPME", "SkipMe", "Daily", "Stand-up", "Raised_Hands",
          "Team-Leader@CompanyName.com"} |->
     CASE t \in {"FROM", "From"} -> "from"
       [] t = "U1" -> "u1"
       [] t = "U2" -> "u2"
       [] t = "U3" -> "u3"
       [] t \in {"SALEM", "Salem"} -> "salem"
       [] t \in {"ROCKET", "Rocket"} -> "rocket"
       [] t = "V" -> "v"
       [] t \in {"SKIPME", "SkipMe"} -> "skipme"
       [] t = "Daily" -> "daily"
       [] t = "Stand-up" -> "stand-up"
       [] t = "Raised_Hands" -> "raised_hands"
       [] t = "Team-Leader@CompanyName.com" -> "team-leader@companyname.com"]

LowerTok(t) == IF t \in DOMAIN LowerMap THEN LowerMap[t] ELSE t

toLowerCase(s) == [i \in 1..Len(s) |-> LowerTok(s[i])]

\* "rsquo" and "lsquo" stand for the typographic apostrophes U+2019 and U+2018,
\* "nonascii" for a run of letters outside ASCII (not word characters for \b).
\* Tokens made of blanks (\s of a RegExp) and tokens that are not word
\* characters (\W); every other token starts and ends with a word character.
SpaceToks == {" ", "\n"}
NonWordToks == SpaceToks \cup {":", "<@", ">", "@", "'", "rsquo", "lsquo", "(", ")", ".", "\\", "skin-tone-", "nonascii"}

IsWordTok(t) == t \notin NonWordToks

\* String.prototype.trim
RECURSIVE trimLeft(_)
trimLeft(s) == IF s # <<>> /\ Head(s) \in SpaceToks THEN trimLeft(Tail(s)) ELSE s

RECURSIVE trimRight(_)
trimRight(s) ==
  IF s # <<>> /\ s[Len(s)] \in SpaceToks THEN trimRight(SubSeq(s, 1, Len(s) - 1)) ELSE s

trim(s) == trimRight(trimLeft(s))

\* lit occurs in s at position i (1-based)
OccursAt(s, lit, i) ==
  /\ i >= 1
  /\ i + Len(lit) - 1 <= Len(s)
  /\ \A k \in 1..Len(lit) : s[i + k - 1] = lit[k]

\* String.prototype.includes
includes(s, lit) == \E i \in 1..(Len(s) + 1) : OccursAt(s, lit, i)

\* Array.prototype.indexOf(v) === i filter: the first occurrence of each element
dedupe(arr) ==
  LET keep(i) == \A j \in 1..(i - 1) : arr[j] # arr[i]
      F[i \in 0..Len(arr)] ==
        IF i = 0 THEN <<>> ELSE IF keep(i) THEN Append(F[i - 1], arr[i]) ELSE F[i - 1]
  IN F[Len(arr)]

\* The number of tokens of s from position i on that are in the set cls
\* (a greedy RegExp repetition cls*).
RECURSIVE RunLen(_, _, _)
RunLen(s, i, cls) == IF i <= Len(s) /\ s[i] \in cls THEN 1 + RunLen(s, i + 1, cls) ELSE 0

\* The concatenation of pieces[lo..hi]
RECURSIVE Concat(_, _, _)
Concat(pieces, lo, hi) ==
  IF lo > hi THEN <<>>
  ELSE IF lo = hi THEN pieces[lo]
  ELSE LET mid == (lo + hi) \div 2
       IN Concat(pieces, lo, mid) \o Concat(pieces, mid + 1, hi)

\* s.replace(/<lit><cls>+/g, rep): every match of the literal lit followed by
\* one or more tokens of cls (as many as there are) is replaced by rep.  For
\* the patterns of this program the first token of lit occurs nowhere else in
\* a match, so no match starts inside another and the leftmost non-overlapping
\* matches are all the places where the pattern occurs.
MatchLen(s, i, lit, cls) ==
  IF OccursAt(s, lit, i) /\ RunLen(s, i + Len(lit), cls) >= 1
    THEN Len(lit) + RunLen(s, i + Len(lit), cls) ELSE 0

ReplaceLitPlus(s, lit, cls, rep) ==
  LET starts == {i \in 1..Len(s) : MatchLen(s, i, lit, cls) > 0}
      inside(i) == \E j \in starts : j < i /\ j + MatchLen(s, j, lit, cls) > i
      pieces == [i \in 1..Len(s) |->
                   IF i \in starts THEN rep ELSE IF inside(i) THEN <<>> ELSE <<s[i]>>]
  IN IF starts = {} THEN s ELSE Concat(pieces, 1, Len(s))

\* s.replace(/[<cls>]/g, rep)
ReplaceClass(s, cls, rep) == [i \in 1..Len(s) |-> IF s[i] \in cls THEN rep ELSE s[i]]

\* ------------------------------------------------------- reaction names

\* normalizeReactionName: name.trim().toLowerCase()
normalizeReactionName(name) == toLowerCase(trim(name))

\* canonicalizeReactionName, as written: the two regular expression literals
\* are /::skin-tone-\\d+/g and /:skin-tone-\\d+/g.  In a RegExp literal \\ is
\* an escaped backslash, so each matches the text "skin-tone-", then one
\* backslash character, then one or more letters d; it does not match a digit.
canonicalizeReactionName(name) ==
  ReplaceLitPlus(ReplaceLitPlus(name, <<":", ":", "skin-tone-", "\\">>, {"d"}, <<>>),
                 <<":", "skin-tone-", "\\">>, {"d"}, <<>>)

\* new RegExp(source, "i") for the regular expressions read from the
\* environment (SLACK_REACTION_BLACKLIST_REGEX, SLACK_SKIP_MESSAGE_REGEX): the
\* model covers the patterns "lit" and "^lit" for a literal text lit, given as
\* [anchored |-> BOOLEAN, lit |-> text].  An optional value of the program
\* (string | undefined, RegExp | undefined, number | undefined) is <<>> when
\* it is undefined and <<v>> when it is v; an empty name is the empty text.
\* RegExp.prototype.test, ignoring case:
RegExpTest(re, s) ==
  LET L == toLowerCase(s)
      lit == toLowerCase(re.lit)
  IN IF re.anchored THEN OccursAt(L, lit, 1) ELSE includes(L, lit)

\* isReactionBlocked without its rule for blocked substrings
isReactionBlockedNoContains(name, cfg) ==
  LET normalized == normalizeReactionName(name)
  IN \/ normalized \in cfg.blacklistExact
     \/ cfg.blacklistRegex # <<>> /\ RegExpTest(cfg.blacklistRegex[1], normalized)

\* isReactionBlocked(name, cfg)
isReactionBlocked(name, cfg) ==
  LET normalized == normalizeReactionName(name)
  IN \/ normalized \in cfg.blacklistExact
     \/ \E i \in 1..Len(cfg.blacklistContains) : includes(normalized, cfg.blacklistContains[i])
     \/ cfg.blacklistRegex # <<>> /\ RegExpTest(cfg.blacklistRegex[1], normalized)

\* ------------------------------------------------------ message content

\* A JSON value: a string (text), an array or an object (its values, in
\* order), a number, null.
Str(text) == [t |-> "str", v |-> text]
Arr(items) == [t |-> "arr", v |-> items]
Obj(values) == [t |-> "obj", v |-> values]
Num == [t |-> "num", v |-> <<>>]
Null == [t |-> "null", v |-> <<>>]

\* The strings collectStrings visits in value with no limit on their number,
\* in the order of the walk: a string itself; the strings of the items of an
\* array or of the values of an object while maxDepth > 0; nothing otherwise.
RECURSIVE StringsWithin(_, _)
StringsWithin(value, maxDepth) ==
  IF value.t = "null" THEN <<>>
  ELSE IF value.t = "str" THEN <<value.v>>
  ELSE IF maxDepth <= 0 THEN <<>>
  ELSE IF value.t \notin {"arr", "obj"} THEN <<>>
  ELSE Concat([i \in 1..Len(value.v) |-> StringsWithin(value.v[i], maxDepth - 1)],
              1, Len(value.v))

\* collectStrings(value, out, {maxDepth, maxStrings}): out with the strings of
\* value appended.  Every push is guarded by out.length >= maxStrings, so the
\* walk appends its strings in order until out holds maxStrings of them.
collectStrings(value, out, maxDepth, maxStrings) ==
  IF Len(out) >= maxStrings THEN out
  ELSE LET found == StringsWithin(value, maxDepth)
           room == maxStrings - Len(out)
       IN out \o SubSeq(found, 1, IF Len(found) < room THEN Len(found) ELSE room)

\* messageContentStrings: collectStrings(message, out, { maxDepth: 8, maxStrings: 600 })
WalkMaxDepth == 8
WalkMaxStrings == 600

messageContentStrings(value) == collectStrings(value, <<>>, WalkMaxDepth, WalkMaxStrings)

\* Sets of positions of a text reached by a RegExp after one more element:
\* a literal, a greedy-with-backtracking \s*, an optional literal.
AfterLit(L, P, lit) == {p + Len(lit) : p \in {q \in P : OccursAt(L, lit, q)}}
AfterSpaces(L, P) == UNION {{p + k : k \in 0..RunLen(L, p, SpaceToks)} : p \in P}
AfterOpt(L, P, lit) == P \cup AfterLit(L, P, lit)

\* \b at position p of L: exactly one of the characters before and after the
\* position is a word character
WordBoundaryAt(L, p) ==
  LET before == p - 1 >= 1 /\ p - 1 <= Len(L) /\ IsWordTok(L[p - 1])
      after == p >= 1 /\ p <= Len(L) /\ IsWordTok(L[p])
  IN before # after

\* the positions after a match of /from\s*:\s*/i
AfterFromColon(L) ==
  AfterSpaces(L, AfterLit(L, AfterSpaces(L, AfterLit(L, 1..Len(L), <<"from">>)), <<":">>))

\* matchesWorkflowFromLineMention: new RegExp(`from\\s*:\\s*<@${escapeRegexLiteral(userId)}>`, "i");
\* escapeRegexLiteral makes the user id match as a literal text.
matchesWorkflowFromLineMention(strings, userId) ==
  \E n \in 1..Len(strings) : \E L \in {toLowerCase(strings[n])} :
    AfterLit(L, AfterFromColon(L), <<"<@", LowerTok(userId), ">">>) # {}

\* matchesWorkflowFromLine: new RegExp(`from\\s*:\\s*@?\\s*${escapeRegexLiteral(alias)}\\b`, "i")
\* the positions after a match of /from\s*:\s*@?\s*/i
AfterFromColonAt(L) == AfterSpaces(L, AfterOpt(L, AfterFromColon(L), <<"@">>))

matchesWorkflowFromLine(strings, aliases) ==
  \E n \in 1..Len(strings) : \E L \in {toLowerCase(strings[n])} :
    \E P \in {AfterFromColonAt(L)} : \E a \in 1..Len(aliases) :
      \E p \in AfterLit(L, P, toLowerCase(aliases[a])) : WordBoundaryAt(L, p)

\* Array.prototype.join("\n")
join(strings) ==
  Concat([i \in 1..Len(strings) |-> IF i = 1 THEN strings[i] ELSE <<"\n">> \o strings[i]],
         1, Len(strings))

\* normalizeForSubstringMatch.  The third step is written .replace(/\\s+/g, " "):
\* an escaped backslash followed by one or more letters s, not a run of blanks.
normalizeForSubstringMatch(input) ==
  trim(ReplaceLitPlus(ReplaceClass(toLowerCase(input), {"rsquo", "lsquo"}, "'"),
                      <<"\\">>, {"s"}, <<" ">>))

\* words separated by single blanks
RECURSIVE Words(_)
Words(ws) == IF Len(ws) <= 1 THEN ws ELSE <<ws[1], " ">> \o Words(Tail(ws))

StandupPhrases ==
  { Words(<<"daily", "stand-up", "meeting", "reminder">>),
    <<"don", "'", "t", " ">> \o Words(<<"forget", "to", "post", "your", "update", "in", "thread">>),
    Words(<<"dont", "forget", "to", "post", "your", "update", "in", "thread">>),
    Words(<<"fill", "form", "from", "slack", "shortcut">>) }

\* isStandupReminderMessage
isStandupReminderMessage(strings) ==
  \E haystack \in {normalizeForSubstringMatch(join(strings))} :
    \E ph \in StandupPhrases : includes(haystack, ph)

\* ------------------------------------------------------- configuration

\* BUILTIN_DEFAULT_REACTIONS
BUILTIN_DEFAULT_REACTIONS == << <<"rocket">>, <<"raised_hands">>, <<"saluting_face">>, <<"v">> >>

Map(f(_), arr) == [i \in 1..Len(arr) |-> f(arr[i])]
Range(arr) == {arr[i] : i \in 1..Len(arr)}

\* skipUserId without the fallback to the token's user
SkipUserIdOverrideOnly(c) == c.SLACK_MY_USER_ID

\* main: const skipUserId = configuredSkipUserId ?? authedUserId
SkipUserId(c) == IF c.SLACK_MY_USER_ID # None THEN c.SLACK_MY_USER_ID ELSE c.authedUserId

\* main: baseAliases, userInfoAliases (users.info of skipUserId; a failed call
\* is ignored and leaves the list empty) and the SkipConfig built from them
At(name) == <<"@">> \o name

RECURSIVE WithAt(_)
WithAt(names) == IF names = <<>> THEN <<>> ELSE <<Head(names), At(Head(names))>> \o WithAt(Tail(names))

SkipConfigOf(c) ==
  LET skipUserId == SkipUserId(c)
      baseAliases ==
        IF skipUserId = c.authedUserId /\ c.authedUserName # <<>>
          THEN <<c.authedUserName, At(c.authedUserName)>> ELSE <<>>
      userInfoAliases == WithAt(c.userInfo)
  IN [skipUserId |-> skipUserId,
      skipUserAliases |-> dedupe(baseAliases \o userInfoAliases),
      skipMessageRegex |-> c.SLACK_SKIP_MESSAGE_REGEX,
      skipMessageContains |-> c.SLACK_SKIP_MESSAGE_CONTAINS]

\* main: the ReactionFilterConfig
ReactionFilterConfigOf(c) ==
  [blacklistExact |-> Range(Map(normalizeReactionName, c.SLACK_REACTION_BLACKLIST)),
   blacklistContains |-> dedupe(Map(normalizeReactionName, c.SLACK_REACTION_BLACKLIST_CONTAINS)),
   blacklistRegex |-> c.SLACK_REACTION_BLACKLIST_REGEX]

\* defaultReactionNames without the filter that removes repeated names
defaultReactionNamesNoDedupe(c) ==
  IF Len(c.SLACK_DEFAULT_REACTIONS) > 0 THEN c.SLACK_DEFAULT_REACTIONS
  ELSE BUILTIN_DEFAULT_REACTIONS

\* main: defaultReactionNames
defaultReactionNames(c) ==
  dedupe(IF Len(c.SLACK_DEFAULT_REACTIONS) > 0 THEN c.SLACK_DEFAULT_REACTIONS
         ELSE BUILTIN_DEFAULT_REACTIONS)

\* --------------------------------------------------- messages as values

\* The message object the Web API returns (conversations.history,
\* conversations.replies, reactions.get), as the value collectStrings walks.
\* view = [ts, user, content, reactions, reply_count]; content stands for the
\* text, blocks and attachments of the message.
ReactionValue(r) == Obj(<<Str(r.name), Arr([i \in 1..Len(r.users) |-> Str(<<r.users[i]>>)]), Num>>)

MessageValue(view, contentOf) ==
  Obj(<<Str(<<"message">>)>>
      \o (IF view.user = None THEN <<>> ELSE <<Str(<<view.user>>)>>)
      \o <<Str(<<view.ts>>), contentOf[view.content]>>
      \o (IF view.reactions = <<>> THEN <<>>
          ELSE <<Arr([i \in 1..Len(view.reactions) |-> ReactionValue(view.reactions[i])])>>))

\* shouldSkipMessage comparing the skip substrings without lower-casing
shouldSkipStringsCaseSensitive(user, strings, cfg) ==
  IF user # None /\ user = cfg.skipUserId THEN [skip |-> TRUE, reason |-> "author_user_id"]
  ELSE IF isStandupReminderMessage(strings) THEN [skip |-> TRUE, reason |-> "standup_reminder"]
  ELSE IF matchesWorkflowFromLineMention(strings, cfg.skipUserId)
    THEN [skip |-> TRUE, reason |-> "workflow_from_line_user_id"]
  ELSE IF matchesWorkflowFromLine(strings, cfg.skipUserAliases)
    THEN [skip |-> TRUE, reason |-> "workflow_from_line_alias"]
  ELSE IF /\ Len(cfg.skipMessageContains) > 0
          /\ \E k \in 1..Len(cfg.skipMessageContains) : \E n \in 1..Len(strings) :
               includes(strings[n], cfg.skipMessageContains[k])
    THEN [skip |-> TRUE, reason |-> "skip_contains"]
  ELSE IF /\ cfg.skipMessageRegex # <<>>
          /\ \E n \in 1..Len(strings) : RegExpTest(cfg.skipMessageRegex[1], strings[n])
    THEN [skip |-> TRUE, reason |-> "skip_regex"]
  ELSE [skip |-> FALSE, reason |-> None]

\* shouldSkipMessage(message, cfg) over the strings of the message
shouldSkipStrings(user, strings, cfg) ==
  IF user # None /\ user = cfg.skipUserId THEN [skip |-> TRUE, reason |-> "author_user_id"]
  ELSE IF isStandupReminderMessage(strings) THEN [skip |-> TRUE, reason |-> "standup_reminder"]
  ELSE IF matchesWorkflowFromLineMention(strings, cfg.skipUserId)
    THEN [skip |-> TRUE, reason |-> "workflow_from_line_user_id"]
  ELSE IF matchesWorkflowFromLine(strings, cfg.skipUserAliases)
    THEN [skip |-> TRUE, reason |-> "workflow_from_line_alias"]
  ELSE IF /\ Len(cfg.skipMessageContains) > 0
          /\ \E k \in 1..Len(cfg.skipMessageContains) : \E n \in 1..Len(strings) :
               includes(toLowerCase(strings[n]), toLowerCase(cfg.skipMessageContains[k]))
    THEN [skip |-> TRUE, reason |-> "skip_contains"]
  ELSE IF /\ cfg.skipMessageRegex # <<>>
          /\ \E n \in 1..Len(strings) : RegExpTest(cfg.skipMessageRegex[1], strings[n])
    THEN [skip |-> TRUE, reason |-> "skip_regex"]
  ELSE [skip |-> FALSE, reason |-> None]

\* ------------------------------------------------------- content pool

\* value nested in k arrays
RECURSIVE Nest(_, _)
Nest(k, value) == IF k = 0 THEN value ELSE Arr(<<Nest(k - 1, value)>>)

Filler(n) == [i \in 1..n |-> Str(<<"x">>)]

TextHello == <<"hello">>
TextSkipMe == <<"please", " ", "SkipMe", " ", "now">>
TextFromId == <<"posted", " ", "From", ":", " ", "<@", "U1", ">">>
TextFromOtherId == <<"from", ":", " ", "<@", "U3", ">">>
TextFromAlias == <<"from", " ", ":", " ", "@", "Salem", " ", "(", "it", ")">>
TextFromAliasLonger == <<"from", ":", " ", "salem", "x">>
TextFromNonAscii == <<"from", ":", " ", "nonascii">>
TextStandup == <<"Daily", " ", "Stand-up", " ", "meeting", " ", "reminder">>

\* The contents of the messages of the model, by name: { text, blocks }.
\* Deep contents hold the text only below eight levels of arrays and objects
\* (as the text of a bullet list item of a rich text block does); late
\* contents hold it after 600 other strings.
ContentPool ==
  [id \in {"hello", "skipme", "skipme_deep7", "skipme_deep8", "skipme_late",
           "from_id", "from_id_deep8", "from_other", "from_alias", "from_alias_longer",
           "from_nonascii", "standup"} |->
    CASE id = "hello" -> Obj(<<Str(TextHello), Arr(<<>>)>>)
      [] id = "skipme" -> Obj(<<Str(TextSkipMe), Arr(<<>>)>>)
      [] id = "skipme_deep7" -> Nest(7, Str(TextSkipMe))
      [] id = "skipme_deep8" -> Nest(8, Str(TextSkipMe))
      [] id = "skipme_late" -> Obj(<<Arr(Filler(WalkMaxStrings)), Str(TextSkipMe)>>)
      [] id = "from_id" -> Obj(<<Str(TextFromId), Arr(<<>>)>>)
      [] id = "from_id_deep8" -> Nest(8, Str(TextFromId))
      [] id = "from_other" -> Obj(<<Str(TextFromOtherId), Arr(<<>>)>>)
      [] id = "from_alias" -> Obj(<<Str(TextFromAlias), Arr(<<>>)>>)
      [] id = "from_alias_longer" -> Obj(<<Str(TextFromAliasLonger), Arr(<<>>)>>)
      [] id = "from_nonascii" -> Obj(<<Str(TextFromNonAscii), Arr(<<>>)>>)
      [] id = "standup" -> Obj(<<Str(TextStandup), Arr(<<>>)>>)]

\* shouldSkipMessage without the check of the author
shouldSkipMessageNoAuthor(view, cfg) ==
  shouldSkipStrings(None, messageContentStrings(MessageValue(view, ContentPool)), cfg)

\* shouldSkipMessage(message, cfg)
shouldSkipMessage(view, cfg) ==
  LET strings == messageContentStrings(MessageValue(view, ContentPool))
  IN shouldSkipStrings(view.user, strings, cfg)

\* ------------------------------------------------------------- state

VARIABLES
  mode,     \* which program runs: "backfill" (slack-reaction-mirror.ts) or "live" (slack-reaction-mirror-watch.ts)
  cfg,      \* the environment and the command line, as read by main
  msgs,     \* remote: message ts -> [user, content, parent]
  history,  \* remote: the pages of conversations.history for the window, each a sequence of ts
  reacts,   \* remote: message ts -> its reaction entries [name, users], in the order they were first added
  bf,       \* the backfill scan: the outbound call in flight (pc), the locals and counters of main
  lv,       \* the live watcher: the events the socket has to deliver and the running handlers
  adds,     \* every add-action decided so far (issued to reactions.add, or logged in dry-run)
  env       \* what the environment has done: reactions by other users, remote failures injected

vars == <<mode, cfg, msgs, history, reacts, bf, lv, adds, env>>

\* bounds of the model
MaxOtherReacts == 1
MaxFaults == 1
MaxRuns == 2
MaxEvents == 2
RepliesPerPage == 2

AllTs == <<"m1", "m2", "m3", "m4">>

\* conversations.replies lists the root of a thread and then its replies
Replies(m) == SelectSeq(AllTs, LAMBDA x : x \in DOMAIN msgs /\ msgs[x].parent = m)
ThreadListing(m) == <<m>> \o Replies(m)

\* the message object the remote returns for ts m now
View(m) ==
  [ts |-> m, user |-> msgs[m].user, content |-> msgs[m].content,
   reactions |-> reacts[m], reply_count |-> Len(Replies(m))]

skipCfg == SkipConfigOf(cfg)
reactionFilterCfg == ReactionFilterConfigOf(cfg)

\* remote reactions.add by user: the entries after the call, or the error
HasReacted(entries, name, user) ==
  \E i \in 1..Len(entries) : entries[i].name = name /\ user \in Range(entries[i].users)

RemoteAdd(entries, name, user) ==
  IF \E i \in 1..Len(entries) : entries[i].name = name
    THEN [i \in 1..Len(entries) |->
            IF entries[i].name = name
              THEN [entries[i] EXCEPT !.users = Append(@, user)] ELSE entries[i]]
    ELSE Append(entries, [name |-> name, users |-> <<user>>])

\* The outcomes of an outbound call: the remote answers, or (while the model
\* still injects failures) it signals a rate limit or fails with an error code.
CallOutcomes ==
  {"ok"} \cup (IF env.flaky /\ env.faults < MaxFaults THEN {"ratelimited", "error"} ELSE {})
AddOutcomes ==
  CallOutcomes \cup (IF env.flaky /\ env.faults < MaxFaults THEN {"too_many_reactions"} ELSE {})
\* the remote has answered o: env.last keeps the answer of the latest call
Faulted(o) ==
  [env EXCEPT !.faults = IF o \in {"ok", "already_reacted"} THEN @ ELSE @ + 1, !.last = o]

\* reactions.add answers already_reacted when the user has the reaction
AddAnswer(o, entries, name, user) ==
  IF o = "ok" /\ HasReacted(entries, name, user) THEN "already_reacted" ELSE o

\* ------------------------------------------------- backfill: main's loop

\* The scan is suspended at an outbound call (bf.pc names the call in flight:
\* "history", "replies", "get", "add") or has ended ("done", "failed").  The
\* operators below run main's synchronous code from one call to the next on a
\* record s: the fields of bf and the log adds.

NoCall ==
  [fn |-> None, ts |-> None, ret |-> None, seen |-> <<>>, emitted |-> <<>>,
   todo |-> <<>>, hasAuthed |-> {},
   added |-> 0, skippedAlreadyReacted |-> 0, skippedBlacklisted |-> 0]

ZeroCounters ==
  [processedMessages |-> 0, totalAdds |-> 0, totalSkipped |-> 0, totalSkippedOwn |-> 0,
   totalSkippedHasReactions |-> 0, totalSkippedBlacklisted |-> 0]

Result(added, already, own, hasReactions, blacklisted) ==
  [added |-> added, skippedAlreadyReacted |-> already, skippedOwnMessage |-> own,
   skippedHasReactions |-> hasReactions, skippedBlacklisted |-> blacklisted]

\* bf.last: the call of mirrorReactionsForMessage or addDefaultReactionsForMessage
\* that returned last: the reactions it fetched, the names it emitted an
\* add-action for, and the result it returned
NoLast == [fn |-> None, ts |-> None, seen |-> <<>>, emitted |-> <<>>, result |-> Result(0, 0, 0, 0, 0)]

\* main's locals when it issues the first conversations.history call
ScanStart(run) ==
  [pc |-> "history", run |-> run, cursor |-> <<>>, page |-> <<>>, idx |-> 0,
   replies |-> <<>>, ridx |-> 0, rcursor |-> <<>>, call |-> NoCall, last |-> NoLast,
   cnt |-> ZeroCounters, err |-> None,
   fetched |-> << <<>> >>, order |-> <<>>, threads |-> <<>>, calls |-> <<>>]

\* args.addDefaultReactions (--add-default-reactions)
addDefaultReactionsAlways == TRUE
addDefaultReactions == cfg.addDefaultReactions

\* args.maxReactionsAdds !== undefined && totalAdds >= args.maxReactionsAdds
OverAddBudget(s) == cfg.maxReactionsAdds # <<>> /\ s.cnt.totalAdds >= cfg.maxReactionsAdds[1]

\* } while (cursor);
PageEndNoMore(s) == [s EXCEPT !.pc = "done"]
PageEnd(s) ==
  IF s.cursor # <<>>
    THEN [s EXCEPT !.pc = "history", !.fetched = Append(@, s.cursor)]
    ELSE [s EXCEPT !.pc = "done"]

\* cursor = undefined; break;   (out of the loop over the messages of the page)
Break(s) == PageEnd([s EXCEPT !.cursor = <<>>])

\* a call of mirrorReactionsForMessage or addDefaultReactionsForMessage: its
\* reactions.get goes out
StartCall(s, fn, ts, ret) ==
  [s EXCEPT !.pc = "get", !.call = [NoCall EXCEPT !.fn = fn, !.ts = ts, !.ret = ret],
            !.calls = Append(@, [ts |-> ts, fn |-> fn, ret |-> ret, root |-> s.page[s.idx].ts])]

RECURSIVE LoopTop(_)

\* the end of the body of the loop over messages, after the thread (if any):
\* the branch for a message without reactions ends in `continue` (line 1052),
\* the other in the check of the add budget (lines 1128-1131)
AfterThread(s) ==
  IF s.page[s.idx].reactions = <<>> THEN LoopTop([s EXCEPT !.idx = @ + 1])
  ELSE IF OverAddBudget(s) THEN Break(s)
  ELSE LoopTop([s EXCEPT !.idx = @ + 1])

\* if (args.includeThreadReplies && message.reply_count && message.reply_count > 0)
StartThreadAlways(s) ==
  [s EXCEPT !.pc = "replies", !.replies = <<>>, !.rcursor = <<>>,
            !.threads = Append(@, s.page[s.idx].ts)]
StartThread(s) ==
  IF cfg.includeThreadReplies /\ s.page[s.idx].reply_count > 0
    THEN [s EXCEPT !.pc = "replies", !.replies = <<>>, !.rcursor = <<>>,
                   !.threads = Append(@, s.page[s.idx].ts)]
    ELSE AfterThread(s)

\* for (const reply of replies), from replies[ridx] on
RECURSIVE RepliesLoop(_)
RepliesLoop(s) ==
  IF s.ridx > Len(s.replies) THEN AfterThread(s)
  ELSE LET reply == s.replies[s.ridx]
           next == [s EXCEPT !.ridx = @ + 1]
       IN IF reply.ts = s.page[s.idx].ts THEN RepliesLoop(next)
          ELSE IF shouldSkipMessage(reply, skipCfg).skip
            THEN RepliesLoop([next EXCEPT !.cnt.totalSkippedOwn = @ + 1])
          ELSE IF reply.reactions = <<>>
            THEN IF addDefaultReactions
                   THEN StartCall(s, "default", reply.ts, "reply")
                   ELSE RepliesLoop(next)
          ELSE StartCall(s, "mirror", reply.ts, "reply")

\* for (const message of messages), from page[idx] on
LoopTop(s) ==
  IF s.idx > Len(s.page) THEN PageEnd(s)
  ELSE LET message == s.page[s.idx]
           s0 == [s EXCEPT !.cnt.processedMessages = @ + 1]
           s1 == [s0 EXCEPT !.order = Append(@, message.ts)]
           isOwnMessage == shouldSkipMessage(message, skipCfg).skip
           own == [s1 EXCEPT !.cnt.totalSkippedOwn = @ + 1]
       IN IF cfg.maxMessages # <<>> /\ s0.cnt.processedMessages > cfg.maxMessages[1]
            THEN Break(s0)
          ELSE IF message.reactions = <<>>
            THEN IF addDefaultReactions /\ ~isOwnMessage
                   THEN StartCall(s1, "default", message.ts, "top")
                   ELSE StartThread(IF isOwnMessage THEN own ELSE s1)
          ELSE IF ~isOwnMessage THEN StartCall(s1, "mirror", message.ts, "top")
          ELSE StartThread(own)

\* the function called returns r: main adds r to its totals and goes on
Return(s, r) ==
  LET t == [s EXCEPT !.cnt.totalAdds = @ + r.added,
                     !.cnt.totalSkipped = @ + r.skippedAlreadyReacted,
                     !.cnt.totalSkippedOwn = @ + r.skippedOwnMessage,
                     !.cnt.totalSkippedHasReactions = @ + r.skippedHasReactions,
                     !.cnt.totalSkippedBlacklisted = @ + r.skippedBlacklisted,
                     !.last = [fn |-> s.call.fn, ts |-> s.call.ts, seen |-> s.call.seen,
                               emitted |-> s.call.emitted, result |-> r],
                     !.call = NoCall]
  IN IF s.call.ret = "top"
       THEN IF s.call.fn = "default" /\ OverAddBudget(t) THEN Break(t) ELSE StartThread(t)
       ELSE IF OverAddBudget(t) THEN AfterThread([t EXCEPT !.cursor = <<>>])
            ELSE RepliesLoop([t EXCEPT !.ridx = @ + 1])

\* dryRun: args.dryRun, as main passes it to both functions
dryRunIgnored == FALSE
dryRun == cfg.dryRun

\* an add-action: the call of reactions.add (or the "would add" line of a dry
\* run), with the reactions of the message as the code had fetched them
AddAction(s, name) ==
  [by |-> "backfill", run |-> s.run, ts |-> s.call.ts, name |-> name,
   kind |-> s.call.fn, dry |-> dryRun, seen |-> s.call.seen]

Emit(s, name) ==
  [s EXCEPT !.adds = Append(@, AddAction(s, name)), !.call.emitted = Append(@, name)]

\* mirrorReactionsForMessage: for (const canonical of canonicals), from the
\* head of call.todo on, up to the next reactions.add
RECURSIVE MirrorLoop(_)
MirrorLoop(s) ==
  IF s.call.todo = <<>>
    THEN Return(s, Result(s.call.added, s.call.skippedAlreadyReacted, 0, 0, s.call.skippedBlacklisted))
  ELSE LET canonical == Head(s.call.todo)
           rest == [s EXCEPT !.call.todo = Tail(@)]
       IN IF canonical \in s.call.hasAuthed
            THEN MirrorLoop([rest EXCEPT !.call.skippedAlreadyReacted = @ + 1])
          ELSE IF isReactionBlocked(canonical, reactionFilterCfg)
            THEN MirrorLoop([rest EXCEPT !.call.skippedBlacklisted = @ + 1])
          ELSE IF dryRun
            THEN MirrorLoop([Emit(rest, canonical) EXCEPT !.call.added = @ + 1])
          ELSE [Emit(s, canonical) EXCEPT !.pc = "add"]

\* addDefaultReactionsForMessage: for (const name of defaultReactionNames)
RECURSIVE DefaultLoop(_)
DefaultLoop(s) ==
  IF s.call.todo = <<>>
    THEN Return(s, Result(s.call.added, s.call.skippedAlreadyReacted, 0, 0, s.call.skippedBlacklisted))
  ELSE LET name == Head(s.call.todo)
           rest == [s EXCEPT !.call.todo = Tail(@)]
       IN IF isReactionBlocked(name, reactionFilterCfg)
            THEN DefaultLoop([rest EXCEPT !.call.skippedBlacklisted = @ + 1])
          ELSE IF dryRun
            THEN DefaultLoop([Emit(rest, name) EXCEPT !.call.added = @ + 1])
          ELSE [Emit(s, name) EXCEPT !.pc = "add"]

CallLoop(s) == IF s.call.fn = "mirror" THEN MirrorLoop(s) ELSE DefaultLoop(s)

\* mirrorReactionsForMessage without canonicalHasAuthedReaction
MirrorAfterGetNoAuthed(s0, message) ==
  LET s == [s0 EXCEPT !.call.seen = message.reactions] IN
  IF shouldSkipMessage(message, skipCfg).skip THEN Return(s, Result(0, 0, 1, 0, 0))
  ELSE IF message.reactions = <<>> THEN Return(s, Result(0, 0, 0, 0, 0))
  ELSE LET named == SelectSeq(message.reactions, LAMBDA r : r.name # <<>>)
           canonicalOf(r) == canonicalizeReactionName(r.name)
       IN MirrorLoop([s EXCEPT
            !.call.todo = dedupe(Map(canonicalOf, named)),
            !.call.hasAuthed = {}])

\* mirrorReactionsForMessage from the answer of reactions.get to its first
\* reactions.add (or its return)
MirrorAfterGet(s0, message) ==
  LET s == [s0 EXCEPT !.call.seen = message.reactions] IN
  IF shouldSkipMessage(message, skipCfg).skip THEN Return(s, Result(0, 0, 1, 0, 0))
  ELSE IF message.reactions = <<>> THEN Return(s, Result(0, 0, 0, 0, 0))
  ELSE LET named == SelectSeq(message.reactions, LAMBDA r : r.name # <<>>)
           canonicalOf(r) == canonicalizeReactionName(r.name)
       IN MirrorLoop([s EXCEPT
            !.call.todo = dedupe(Map(canonicalOf, named)),
            !.call.hasAuthed =
              {canonicalOf(named[i]) :
                 i \in {j \in 1..Len(named) : cfg.authedUserId \in Range(named[j].users)}}])

\* addDefaultReactionsForMessage trusting the history page: no look at the
\* reactions it fetched
DefaultAfterGetAsListed(s0, message) ==
  LET s == [s0 EXCEPT !.call.seen = message.reactions] IN
  IF shouldSkipMessage(message, skipCfg).skip THEN Return(s, Result(0, 0, 1, 0, 0))
  ELSE DefaultLoop([s EXCEPT !.call.todo = defaultReactionNames(cfg)])

\* addDefaultReactionsForMessage from the answer of reactions.get on
DefaultAfterGet(s0, message) ==
  LET s == [s0 EXCEPT !.call.seen = message.reactions] IN
  IF shouldSkipMessage(message, skipCfg).skip THEN Return(s, Result(0, 0, 1, 0, 0))
  ELSE IF message.reactions # <<>> THEN Return(s, Result(0, 0, 0, 1, 0))
  ELSE DefaultLoop([s EXCEPT !.call.todo = defaultReactionNames(cfg)])

\* ------------------------------------------------------ backfill: steps

Scan == [f \in DOMAIN bf \cup {"adds"} |-> IF f = "adds" THEN adds ELSE bf[f]]

Commit(s) ==
  \E t \in {s} :
    /\ bf' = [f \in DOMAIN bf |-> t[f]]
    /\ adds' = t.adds

\* main().catch: console.error(err); process.exit(1)
Failed(s, err) == [s EXCEPT !.pc = "failed", !.err = err]

\* the page of a listing the remote returns for a cursor, and the next cursor
PageNo(cursor) == IF cursor = <<>> THEN 1 ELSE cursor[1]
NextCursor(cursor, pages) == IF PageNo(cursor) < pages THEN <<PageNo(cursor) + 1>> ELSE <<>>
Chunk(listing, k, size) ==
  SubSeq(listing, (k - 1) * size + 1, IF k * size < Len(listing) THEN k * size ELSE Len(listing))
Chunks(listing, size) == (Len(listing) + size - 1) \div size

\* conversations.history answers (withRateLimitRetry around it): main takes
\* the messages and the next cursor and runs the loop over the messages
BF_History ==
  /\ mode = "backfill"
  /\ bf.pc = "history"
  /\ \E o \in CallOutcomes :
       /\ env' = Faulted(o)
       /\ CASE o = "ok" ->
                 LET ids == IF PageNo(bf.cursor) <= Len(history)
                              THEN history[PageNo(bf.cursor)] ELSE <<>>
                 IN Commit(LoopTop([Scan EXCEPT
                      !.page = Map(View, ids),
                      !.cursor = NextCursor(bf.cursor, Len(history)),
                      !.idx = 1]))
            [] o = "ratelimited" -> UNCHANGED <<bf, adds>>
            [] OTHER -> Commit(Failed(Scan, o))
  /\ UNCHANGED <<mode, cfg, msgs, history, reacts, lv>>

\* listThreadReplies: one conversations.replies answers; the loop goes on
\* while the answer carries a cursor, then main runs the loop over the replies
BF_Replies ==
  /\ mode = "backfill"
  /\ bf.pc = "replies"
  /\ \E o \in CallOutcomes :
       /\ env' = Faulted(o)
       /\ CASE o = "ok" ->
                 LET listing == ThreadListing(bf.page[bf.idx].ts)
                     k == PageNo(bf.rcursor)
                     next == NextCursor(bf.rcursor, Chunks(listing, RepliesPerPage))
                     got == bf.replies \o Map(View, Chunk(listing, k, RepliesPerPage))
                 IN IF next # <<>>
                      THEN Commit([Scan EXCEPT !.replies = got, !.rcursor = next])
                      ELSE Commit(RepliesLoop([Scan EXCEPT !.replies = got, !.rcursor = <<>>,
                                                           !.ridx = 1]))
            [] o = "ratelimited" -> UNCHANGED <<bf, adds>>
            [] OTHER -> Commit(Failed(Scan, o))
  /\ UNCHANGED <<mode, cfg, msgs, history, reacts, lv>>

\* reactions.get of mirrorReactionsForMessage or addDefaultReactionsForMessage answers
BF_Get ==
  /\ mode = "backfill"
  /\ bf.pc = "get"
  /\ \E o \in CallOutcomes :
       /\ env' = Faulted(o)
       /\ CASE o = "ok" ->
                 IF bf.call.fn = "mirror"
                   THEN Commit(MirrorAfterGet(Scan, View(bf.call.ts)))
                   ELSE Commit(DefaultAfterGet(Scan, View(bf.call.ts)))
            [] o = "ratelimited" -> UNCHANGED <<bf, adds>>
            [] OTHER -> Commit(Failed(Scan, o))
  /\ UNCHANGED <<mode, cfg, msgs, history, reacts, lv>>

\* the catch block around reactions.add, rethrowing every error
AddCatchRethrowAll(s, rest, errorCode) == Failed(s, errorCode)

\* the catch block around reactions.add in mirrorReactionsForMessage and in
\* addDefaultReactionsForMessage: already_reacted is counted, the rest rethrown
AddCatch(s, rest, errorCode) ==
  IF errorCode = "already_reacted"
    THEN CallLoop([rest EXCEPT !.call.skippedAlreadyReacted = @ + 1])
    ELSE Failed(s, errorCode)

\* reactions.add for the head of call.todo answers: added, or already_reacted
\* (counted as skipped), or another error (rethrown: the scan ends)
BF_Add ==
  /\ mode = "backfill"
  /\ bf.pc = "add"
  /\ LET ts == bf.call.ts
         name == Head(bf.call.todo)
         rest == [Scan EXCEPT !.call.todo = Tail(@)]
     IN \E o \in {AddAnswer(x, reacts[ts], name, cfg.authedUserId) : x \in AddOutcomes} :
          /\ env' = Faulted(o)
          /\ CASE o = "ok" ->
                    /\ reacts' = [reacts EXCEPT ![ts] = RemoteAdd(@, name, cfg.authedUserId)]
                    /\ Commit(CallLoop([rest EXCEPT !.call.added = @ + 1]))
               [] o = "ratelimited" -> UNCHANGED <<bf, adds, reacts>>
               [] OTHER -> UNCHANGED reacts /\ Commit(AddCatch(Scan, rest, o))
  /\ UNCHANGED <<mode, cfg, msgs, history, lv>>

\* the operator runs the same scan again once it has completed
BF_RunAgain ==
  /\ mode = "backfill"
  /\ bf.pc = "done"
  /\ bf.run < MaxRuns
  /\ bf' = ScanStart(bf.run + 1)
  /\ UNCHANGED <<mode, cfg, msgs, history, reacts, lv, adds, env>>

\* ------------------------------------------------------- live watcher

\* the reaction_added event the remote pushes when user adds name to message m
ReactionAdded(m, name, user) ==
  [type |-> "reaction_added", user |-> user, reaction |-> name, item_type |-> "message",
   channel |-> msgs[m].channel, ts |-> m, item_user |-> msgs[m].user]

\* The callback of socketClient.on("events_api", ...).  A handler keeps the
\* event, the call in flight (pc: "get", "add") or "done", the operations it
\* has performed on the socket and on the remote so far (ops), what it wrote
\* to the console when it ended (logged) and whether its promise rejected.
Received(event) ==
  [ev |-> event, pc |-> "done", canonicalReaction |-> <<>>, ops |-> <<>>,
   answered |-> 0, seen |-> <<>>, result |-> None, logged |-> None, rejected |-> FALSE]

\* await ack();
AckNever(h) == h
Ack(h) == [h EXCEPT !.ops = Append(@, "ack")]

\* if (reactingUser === authedUserId) return;
IsOwnReactionNever(event) == FALSE
IsOwnReaction(event) == event.user = cfg.authedUserId

\* if (filterChannelId && channel !== filterChannelId) return;
OutsideChannelFilter(event) ==
  cfg.SLACK_CHANNEL_ID # None /\ event.channel # cfg.SLACK_CHANNEL_ID

\* an outbound call issued twice
IssueTwice(h, call) == [h EXCEPT !.pc = call, !.ops = @ \o <<call, call>>]

\* await withRateLimitRetry(() => web.<call>(...)): the call goes out and
\* the handler is suspended until it is answered
Issue(h, call) == [h EXCEPT !.pc = call, !.ops = Append(@, call)]

\* the call in flight has been answered (with a result or an error)
Answered(h) == [h EXCEPT !.answered = @ + 1]

\* the handler returns
End(h, result, logged) == [h EXCEPT !.pc = "done", !.result = result, !.logged = logged]

\* the catch block of the handler, rethrowing what it does not know
CatchRethrow(h, errorCode) ==
  IF errorCode = "already_reacted" THEN End(h, "already_reacted", None)
  ELSE IF errorCode = "too_many_reactions" THEN End(h, "too_many_reactions", "log")
  ELSE [End(h, "error", None) EXCEPT !.rejected = TRUE]

\* the catch block of the handler
Catch(h, errorCode) ==
  IF errorCode = "already_reacted" THEN End(h, "already_reacted", None)
  ELSE IF errorCode = "too_many_reactions" THEN End(h, "too_many_reactions", "log")
  ELSE End(h, "error", "error")

\* The callback from its start to its first outbound call: await ack(), the
\* filters on the event, the blocklist, the item_user check.
Handler(event) ==
  LET h == Ack(Received(event))
      canonicalReaction == canonicalizeReactionName(event.reaction)
      c == [h EXCEPT !.canonicalReaction = canonicalReaction]
  IN IF event.type # "reaction_added" THEN End(h, "ignored", None)
     ELSE IF event.item_type # "message" THEN End(h, "ignored", None)
     ELSE IF IsOwnReaction(event) THEN End(h, "ignored", None)
     ELSE IF OutsideChannelFilter(event) THEN End(h, "ignored", None)
     ELSE IF \/ isReactionBlocked(event.reaction, reactionFilterCfg)
             \/ isReactionBlocked(canonicalReaction, reactionFilterCfg)
       THEN End(c, "blocked", None)
     ELSE IF event.item_user = skipCfg.skipUserId THEN End(c, "skipped", None)
     ELSE Issue(c, "get")

\* the process runs as long as no handler's promise has rejected
Running == \A i \in 1..Len(lv.handlers) : ~lv.handlers[i].rejected

\* the socket delivers the next event and the callback runs up to its first call
Live_Event ==
  /\ mode = "live"
  /\ Running
  /\ lv.queue # <<>>
  /\ lv' = [lv EXCEPT !.queue = Tail(@), !.handlers = Append(@, Handler(Head(lv.queue)))]
  /\ UNCHANGED <<mode, cfg, msgs, history, reacts, bf, adds, env>>

\* alreadyReactedAnyVariant
alreadyReactedAnyVariantNever(reactions, canonicalReaction) == FALSE
alreadyReactedAnyVariant(reactions, canonicalReaction) ==
  \E k \in 1..Len(reactions) :
    /\ reactions[k].name # <<>>
    /\ canonicalizeReactionName(reactions[k].name) = canonicalReaction
    /\ cfg.authedUserId \in Range(reactions[k].users)

LiveAddAction(h, reactions) ==
  [by |-> "live", run |-> 0, ts |-> h.ev.ts, name |-> h.canonicalReaction,
   kind |-> "mirror", dry |-> FALSE, seen |-> reactions]

\* getMessageWithReactions answers: skip rules, already-reacted check, then
\* reactions.add goes out; a failure is caught and logged
Live_Get(i) ==
  /\ mode = "live"
  /\ Running
  /\ lv.handlers[i].pc = "get"
  /\ LET message == View(lv.handlers[i].ev.ts)
         h == Answered(lv.handlers[i])
         got == [h EXCEPT !.seen = message.reactions]
     IN \E o \in CallOutcomes :
          /\ env' = Faulted(o)
          /\ CASE o = "ok" ->
                    IF shouldSkipMessage(message, skipCfg).skip
                      THEN lv' = [lv EXCEPT !.handlers[i] = End(got, "skipped", None)]
                           /\ UNCHANGED adds
                    ELSE IF alreadyReactedAnyVariant(message.reactions, h.canonicalReaction)
                      THEN lv' = [lv EXCEPT !.handlers[i] = End(got, "already", None)]
                           /\ UNCHANGED adds
                    ELSE /\ lv' = [lv EXCEPT !.handlers[i] = Issue(got, "add")]
                         /\ adds' = Append(adds, LiveAddAction(h, message.reactions))
               [] o = "ratelimited" -> UNCHANGED <<lv, adds>>
               [] OTHER -> lv' = [lv EXCEPT !.handlers[i] = Catch(h, o)] /\ UNCHANGED adds
  /\ UNCHANGED <<mode, cfg, msgs, history, reacts, bf>>

\* reactions.add answers: the remote records the reaction (and pushes its
\* reaction_added event), or the catch block handles the error
Live_Add(i) ==
  /\ mode = "live"
  /\ Running
  /\ lv.handlers[i].pc = "add"
  /\ LET h == Answered(lv.handlers[i])
         ts == h.ev.ts
         name == h.canonicalReaction
     IN \E o \in {AddAnswer(x, reacts[ts], name, cfg.authedUserId) : x \in AddOutcomes} :
          /\ env' = Faulted(o)
          /\ CASE o = "ok" ->
                    /\ reacts' = [reacts EXCEPT ![ts] = RemoteAdd(@, name, cfg.authedUserId)]
                    /\ lv' = [lv EXCEPT !.handlers[i] = End(h, "added", "log"),
                                        !.queue = Append(@, ReactionAdded(ts, name, cfg.authedUserId))]
               [] o = "ratelimited" -> UNCHANGED <<lv, reacts>>
               [] OTHER -> UNCHANGED reacts /\ lv' = [lv EXCEPT !.handlers[i] = Catch(h, o)]
  /\ UNCHANGED <<mode, cfg, msgs, history, bf, adds>>

\* ---------------------------------------------------------- environment

\* Another user of the workspace adds a reaction to a message; while a
\* watcher runs, the remote pushes the reaction_added event to it.
OtherReacts ==
  /\ ~env.quiet
  /\ env.others < (IF mode = "live" THEN MaxEvents ELSE MaxOtherReacts)
  /\ \E m \in env.targets, u \in env.users, name \in env.names :
       /\ ~HasReacted(reacts[m], name, u)
       /\ reacts' = [reacts EXCEPT ![m] = RemoteAdd(@, name, u)]
       /\ lv' = IF mode = "live"
                  THEN [lv EXCEPT !.queue = Append(@, ReactionAdded(m, name, u))] ELSE lv
  /\ env' = [env EXCEPT !.others = @ + 1]
  /\ UNCHANGED <<mode, cfg, msgs, history, bf, adds>>

\* remote reactions.remove by user: the entry loses the user, and goes with
\* its last user
RemoteRemove(entries, name, user) ==
  LET without(e) == [e EXCEPT !.users = SelectSeq(@, LAMBDA u : u # user)]
      left == [i \in 1..Len(entries) |->
                 IF entries[i].name = name THEN without(entries[i]) ELSE entries[i]]
  IN SelectSeq(left, LAMBDA e : e.users # <<>>)

\* Another user takes a reaction off a message again; the remote pushes the
\* reaction_removed event to the watcher.
OtherRemoves ==
  /\ mode = "live"
  /\ env.fickle
  /\ env.others < MaxEvents
  /\ \E m \in env.targets, u \in env.users, name \in env.names :
       /\ HasReacted(reacts[m], name, u)
       /\ reacts' = [reacts EXCEPT ![m] = RemoteRemove(@, name, u)]
       /\ lv' = [lv EXCEPT !.queue = Append(@,
                   [ReactionAdded(m, name, u) EXCEPT !.type = "reaction_removed"])]
  /\ env' = [env EXCEPT !.others = @ + 1]
  /\ UNCHANGED <<mode, cfg, msgs, history, bf, adds>>

\* Another event reaches the watcher: not a reaction_added, or not on a message.
OtherEvent ==
  /\ mode = "live"
  /\ env.others < MaxEvents
  /\ \E kind \in {"type", "item"} :
       lv' = [lv EXCEPT !.queue = Append(@,
                [ReactionAdded("m1", <<"rocket">>, "U2") EXCEPT
                   !.type = IF kind = "type" THEN "reaction_removed" ELSE @,
                   !.item_type = IF kind = "item" THEN "file" ELSE @])]
  /\ env' = [env EXCEPT !.others = @ + 1]
  /\ UNCHANGED <<mode, cfg, msgs, history, reacts, bf, adds>>

\* ------------------------------------------------------ configurations

Rocket == <<"rocket">>
V == <<"v">>
RaisedHands == <<"raised_hands">>
Tone(name, k) == name \o <<":", ":", "skin-tone-", k>>

\* token user U1 (auth.test: user "salem"); users.info of U1 gives its names
BaseCfg ==
  [authedUserId |-> "U1", authedUserName |-> <<"salem">>, SLACK_MY_USER_ID |-> None,
   userInfo |-> << <<"salem">>, <<"Salem", " ", "A">>, <<"nonascii">> >>,
   SLACK_SKIP_MESSAGE_REGEX |-> <<>>, SLACK_SKIP_MESSAGE_CONTAINS |-> <<>>,
   SLACK_DEFAULT_REACTIONS |-> <<>>,
   SLACK_REACTION_BLACKLIST |-> <<>>, SLACK_REACTION_BLACKLIST_CONTAINS |-> <<>>,
   SLACK_REACTION_BLACKLIST_REGEX |-> <<>>, SLACK_CHANNEL_ID |-> None,
   dryRun |-> FALSE, addDefaultReactions |-> FALSE, includeThreadReplies |-> TRUE,
   maxMessages |-> <<>>, maxReactionsAdds |-> <<>>]

CfgOverrideSame == [BaseCfg EXCEPT !.SLACK_MY_USER_ID = "U1"]
\* SLACK_MY_USER_ID names another account; users.info of U2 gives its name
CfgOverrideOther == [BaseCfg EXCEPT !.SLACK_MY_USER_ID = "U2", !.userInfo = << <<"bob">> >>]
CfgBlockExact == [BaseCfg EXCEPT !.SLACK_REACTION_BLACKLIST = << <<" ", "Rocket">> >>]
CfgBlockContains == [BaseCfg EXCEPT !.SLACK_REACTION_BLACKLIST_CONTAINS = << <<"skin-tone-">> >>]
CfgBlockRegex ==
  [BaseCfg EXCEPT !.SLACK_REACTION_BLACKLIST_REGEX = <<[anchored |-> TRUE, lit |-> <<"Raised_Hands">>]>>]
CfgDefault == [BaseCfg EXCEPT !.addDefaultReactions = TRUE]
CfgDefaultList ==
  [BaseCfg EXCEPT !.addDefaultReactions = TRUE,
                  !.SLACK_DEFAULT_REACTIONS = <<Rocket, V, Rocket>>,
                  !.SLACK_REACTION_BLACKLIST = <<V>>]
CfgDryRun == [CfgDefault EXCEPT !.dryRun = TRUE]
CfgMaxAdds == [CfgDefault EXCEPT !.maxReactionsAdds = <<1>>]
CfgMaxMessages == [BaseCfg EXCEPT !.maxMessages = <<1>>]
CfgNoThreads == [BaseCfg EXCEPT !.includeThreadReplies = FALSE]
CfgChannel == [BaseCfg EXCEPT !.SLACK_CHANNEL_ID = "C1"]
CfgSkip ==
  [BaseCfg EXCEPT !.SLACK_SKIP_MESSAGE_CONTAINS = << <<"skipme">> >>,
                  !.SLACK_SKIP_MESSAGE_REGEX = <<[anchored |-> FALSE, lit |-> <<"standup">>]>>]
CfgSkipDefault == [CfgSkip EXCEPT !.addDefaultReactions = TRUE]

\* ---------------------------------------------------------- the worlds

Msg(user, content, parent, channel) ==
  [user |-> user, content |-> content, parent |-> parent, channel |-> channel]
E(name, users) == [name |-> name, users |-> users]

\* reactions of a message before the program starts
ReactionPool ==
  { <<>>,
    <<E(Rocket, <<"U2">>)>>,
    <<E(Rocket, <<"U2", "U1">>)>>,
    <<E(Rocket, <<"U2">>), E(V, <<"U3">>)>>,
    <<E(Tone(RaisedHands, "2"), <<"U2">>)>>,
    <<E(RaisedHands, <<"U2">>), E(Tone(RaisedHands, "3"), <<"U1">>)>>,
    <<E(Tone(RaisedHands, "2"), <<"U2">>), E(Tone(RaisedHands, "3"), <<"U3">>)>> }

\* A channel C1 whose window holds three top-level messages on two pages of
\* conversations.history and a thread of one reply under m1; m1 varies.
Channel(m1) ==
  [msgs |-> [m \in {"m1", "m2", "m3", "m4"} |->
               CASE m = "m1" -> m1.msg
                 [] m = "m2" -> Msg("U2", "hello", None, "C1")
                 [] m = "m3" -> Msg("U3", "hello", None, "C1")
                 [] m = "m4" -> Msg("U2", "hello", "m1", "C1")],
   history |-> << <<"m1", "m2">>, <<"m3">> >>,
   reacts |-> [m \in {"m1", "m2", "m3", "m4"} |->
                 CASE m = "m1" -> m1.reactions
                   [] m = "m2" -> <<E(Rocket, <<"U3">>)>>
                   [] m = "m3" -> <<>>
                   [] m = "m4" -> <<E(V, <<"U3">>)>>]]

\* What the watcher sees: the message m1.
Watched(m1) ==
  [msgs |-> [m \in {"m1"} |-> m1.msg], history |-> <<>>,
   reacts |-> [m \in {"m1"} |-> m1.reactions]]

\* The environment: nobody else reacts (Quiet), or the users of env.users
\* react to the messages of env.targets with the names of env.names (and,
\* where fickle, take their reactions off again); the remote answers every
\* call (flaky = FALSE) or may fail some.
Quiet(flaky) ==
  [others |-> 0, faults |-> 0, last |-> None, quiet |-> TRUE, flaky |-> flaky,
   fickle |-> FALSE, users |-> {}, targets |-> {}, names |-> {}]
Busy(users, targets, flaky) ==
  [others |-> 0, faults |-> 0, last |-> None, quiet |-> FALSE, flaky |-> flaky,
   fickle |-> FALSE, users |-> users, targets |-> targets, names |-> {Rocket, Tone(RaisedHands, "2")}]

Start(md, c, world, e) ==
  /\ mode = md
  /\ cfg = c
  /\ msgs = world.msgs
  /\ history = world.history
  /\ reacts = world.reacts
  /\ bf = ScanStart(1)
  /\ lv = [queue |-> <<>>, handlers |-> <<>>]
  /\ adds = <<>>
  /\ env = e

M1(author, content, channel, reactions) ==
  [msg |-> Msg(author, content, None, channel), reactions |-> reactions]

BackfillCfgs ==
  {BaseCfg, CfgOverrideSame, CfgOverrideOther, CfgBlockExact, CfgBlockContains, CfgBlockRegex,
   CfgDefault, CfgDefaultList, CfgDryRun, CfgMaxAdds, CfgMaxMessages, CfgNoThreads}

FewReactions ==
  { <<>>, <<E(Rocket, <<"U2", "U1">>)>>,
    <<E(RaisedHands, <<"U2">>), E(Tone(RaisedHands, "3"), <<"U1">>)>> }

\* a backfill of the channel: every configuration with every m1 in a quiet
\* workspace; two configurations with failing calls, with other users
\* reacting, or with the owner of the acting account reacting by hand; three
\* with a thread reply that carries no reaction, or that the acting account wrote
InitBackfill ==
  \/ \E c \in BackfillCfgs, author \in {"U1", "U2"}, reactions \in ReactionPool :
       Start("backfill", c, Channel(M1(author, "hello", "C1", reactions)), Quiet(FALSE))
  \/ \E c \in {BaseCfg, CfgDefault}, reactions \in FewReactions, e \in {"flaky", "busy"} :
       Start("backfill", c, Channel(M1("U2", "hello", "C1", reactions)),
             IF e = "flaky" THEN Quiet(TRUE) ELSE Busy({"U2"}, {"m1", "m3"}, FALSE))
  \/ \E c \in {BaseCfg, CfgDefault}, reactions \in {<<>>, <<E(Rocket, <<"U2">>)>>} :
       Start("backfill", c, Channel(M1("U2", "hello", "C1", reactions)),
             Busy({"U1"}, {"m1"}, FALSE))
  \/ \E c \in {BaseCfg, CfgDefault, CfgNoThreads}, reply \in {"bare", "own"} :
       Start("backfill", c,
             IF reply = "bare"
               THEN [Channel(M1("U2", "hello", "C1", <<>>)) EXCEPT !.reacts["m4"] = <<>>]
               ELSE [Channel(M1("U2", "hello", "C1", <<>>)) EXCEPT !.msgs["m4"].user = "U1"],
             Quiet(FALSE))

\* a watcher: the events come from the reactions of U2 (in one world, of U2
\* and U3) to m1
InitLive ==
  \/ \E c \in {BaseCfg, CfgOverrideSame, CfgOverrideOther}, author \in {"U1", "U2"},
        reactions \in FewReactions :
       Start("live", c, Watched(M1(author, "hello", "C1", reactions)), Busy({"U2"}, {"m1"}, FALSE))
  \/ \E c \in {CfgBlockExact, CfgBlockContains, CfgBlockRegex} :
       Start("live", c, Watched(M1("U2", "hello", "C1", <<>>)), Busy({"U2"}, {"m1"}, FALSE))
  \/ \E channel \in {"C1", "C2"} :
       Start("live", CfgChannel, Watched(M1("U2", "hello", channel, <<>>)),
             Busy({"U2"}, {"m1"}, FALSE))
  \/ Start("live", BaseCfg, Watched(M1("U2", "hello", "C1", <<>>)),
           [Busy({"U2", "U3"}, {"m1"}, FALSE) EXCEPT
              !.names = {Tone(RaisedHands, "2"), Tone(RaisedHands, "3")}])
  \/ \E reactions \in FewReactions :
       Start("live", BaseCfg, Watched(M1("U2", "hello", "C1", reactions)),
             Busy({"U2"}, {"m1"}, TRUE))
  \/ Start("live", BaseCfg, Watched(M1("U3", "hello", "C1", <<>>)),
           [Busy({"U2"}, {"m1"}, FALSE) EXCEPT !.fickle = TRUE, !.names = {Rocket}])

\* m1 posted by an automation B1 with each content of the pool, under a
\* configuration with a skip substring and a skip regular expression
InitContent ==
  \/ \E c \in {CfgSkip, CfgSkipDefault}, content \in DOMAIN ContentPool,
        reactions \in {<<>>, <<E(Rocket, <<"U2">>)>>} :
       Start("backfill", c, Channel(M1("B1", content, "C1", reactions)), Quiet(FALSE))
  \/ \E content \in DOMAIN ContentPool :
       Start("live", CfgSkip, Watched(M1("B1", content, "C1", <<>>)), Busy({"U2"}, {"m1"}, FALSE))

Init == InitBackfill \/ InitLive \/ InitContent

Next ==
  \/ BF_History
  \/ BF_Replies
  \/ BF_Get
  \/ BF_Add
  \/ BF_RunAgain
  \/ Live_Event
  \/ \E i \in 1..Len(lv.handlers) : Live_Get(i)
  \/ \E i \in 1..Len(lv.handlers) : Live_Add(i)
  \/ OtherReacts
  \/ OtherRemoves
  \/ OtherEvent

Spec == Init /\ [][Next]_vars

\* -------------------------------------------- canonicalizeReactionName alone

\* In SpecCanon the function is applied to one name: cfg holds the argument
\* and adds receives the pair of the argument and the value returned.
ToneDigits == {"2", "3", "4", "5", "6"}
CanonBases == {Rocket, V, RaisedHands, <<"wave">>, <<"+1">>, <<"woman-raising-hand">>}
CanonSuffixes ==
  {<<>>} \cup {<<":", ":", "skin-tone-", k>> : k \in ToneDigits}
         \cup {<<":", "skin-tone-", k>> : k \in ToneDigits}
         \cup {<<":", ":", "skin-tone-", "\\", "d">>, <<":", "skin-tone-", "\\", "d", "d">>}

InitCanon ==
  /\ mode = "canonicalize"
  /\ \E base \in CanonBases, suffix \in CanonSuffixes : cfg = [name |-> base \o suffix]
  /\ msgs = <<>>
  /\ history = <<>>
  /\ reacts = <<>>
  /\ bf = <<>>
  /\ lv = <<>>
  /\ adds = <<>>
  /\ env = <<>>

Canonicalize ==
  /\ mode = "canonicalize"
  /\ adds = <<>>
  /\ adds' = <<[name |-> cfg.name, canonical |-> canonicalizeReactionName(cfg.name)]>>
  /\ UNCHANGED <<mode, cfg, msgs, history, reacts, bf, lv, env>>

NextCanon == Canonicalize

SpecCanon == InitCanon /\ [][NextCanon]_vars

\* -------------------------------------------------- withRateLimitRetry alone

\* In SpecRetry the wrapper runs around an operation whose invocations end as
\* cfg.script says, one entry for each invocation; bf is the wrapper.
MaxCalls == 3

\* what an invocation can throw: a value with the fields retryAfter and
\* data.retry_after (absent, a number or a string), or a value that is no object
Absent == [type |-> "undefined", v |-> 0]
Number(n) == [type |-> "number", v |-> n]
Text(n) == [type |-> "string", v |-> n]
Err(object, retryAfter, retry_after, code) ==
  [object |-> object, retryAfter |-> retryAfter, retry_after |-> retry_after, code |-> code]

ErrPool ==
  { Err(TRUE, Number(2), Absent, "ratelimited"),
    Err(TRUE, Number(0), Absent, "ratelimited"),
    Err(TRUE, Absent, Number(1), "ratelimited"),
    Err(TRUE, Text(30), Absent, "request_timeout"),
    Err(TRUE, Absent, Absent, "already_reacted"),
    Err(FALSE, Absent, Absent, "thrown_string") }

Resolve(value) == [kind |-> "resolve", value |-> value, err |-> Err(FALSE, Absent, Absent, None)]
Reject(err) == [kind |-> "reject", value |-> None, err |-> err]

OutcomePool == {Resolve("result_a"), Resolve("result_b")} \cup {Reject(e) : e \in ErrPool}

\* getRetryAfterSeconds reading the field retryAfter only
getRetryAfterSecondsTopLevelOnly(err) ==
  IF ~err.object THEN <<>>
  ELSE IF err.retryAfter.type = "number" THEN <<err.retryAfter.v>>
  ELSE <<>>

\* getRetryAfterSeconds: <<>> for undefined
getRetryAfterSeconds(err) ==
  IF ~err.object THEN <<>>
  ELSE IF err.retryAfter.type = "number" THEN <<err.retryAfter.v>>
  ELSE IF err.retry_after.type = "number" THEN <<err.retry_after.v>>
  ELSE <<>>

InitRetry ==
  /\ mode = "retry"
  /\ \E n \in 1..MaxCalls : \E script \in [1..n -> OutcomePool] : cfg = [script |-> script]
  /\ msgs = <<>>
  /\ history = <<>>
  /\ reacts = <<>>
  /\ bf = [pc |-> "call", calls |-> 0, slept |-> <<>>, result |-> None,
           thrown |-> Err(FALSE, Absent, Absent, None)]
  /\ lv = <<>>
  /\ adds = <<>>
  /\ env = <<>>

\* return await fn();  and the catch block, up to the sleep
Retry_Invoke ==
  /\ mode = "retry"
  /\ bf.pc = "call"
  /\ bf.calls < Len(cfg.script)
  /\ LET outcome == cfg.script[bf.calls + 1]
         invoked == [bf EXCEPT !.calls = @ + 1]
         retryAfter == getRetryAfterSeconds(outcome.err)
     IN bf' = IF outcome.kind = "resolve"
                THEN [invoked EXCEPT !.pc = "returned", !.result = outcome.value]
              ELSE IF retryAfter = <<>>
                THEN [invoked EXCEPT !.pc = "thrown", !.thrown = outcome.err]
              ELSE [invoked EXCEPT !.pc = "sleep", !.slept = Append(@, retryAfter[1] * 1000)]
  /\ UNCHANGED <<mode, cfg, msgs, history, reacts, lv, adds, env>>

\* a wrapper that gives up after the sleep: it throws what it caught
GiveUp(wrapper) == [wrapper EXCEPT !.pc = "thrown", !.thrown = cfg.script[wrapper.calls].err]

\* while (true): after the sleep the loop goes round to the next invocation
GoRound(wrapper) == [wrapper EXCEPT !.pc = "call"]

\* await sleep(retryAfter * 1000) is over: the loop goes round
Retry_Wake ==
  /\ mode = "retry"
  /\ bf.pc = "sleep"
  /\ bf' = GoRound(bf)
  /\ UNCHANGED <<mode, cfg, msgs, history, reacts, lv, adds, env>>

NextRetry == Retry_Invoke \/ Retry_Wake

SpecRetry == InitRetry /\ [][NextRetry]_vars

\* The wrapper is a chain of promise continuations and timers: the event loop
\* runs each of them once the promise it awaits has settled or the timer has
\* fired, so a step that is possible is taken.
SpecRetryFair == SpecRetry /\ WF_vars(NextRetry)

\* ------------------------------------------- Gmail acknowledgement bot

\* In SpecGmail msgs is the mailbox (one record for each thread: the To
\* header, subject and body of its first message, what the search index knows
\* of it, and its message count, label and flags), cfg is ACK_BOT_CONFIG, bf
\* is the run of autoAcknowledgeTeamLeaderInbox and adds the replies sent.
MaxMail == 2

\* "ijaza", "mughadara", "khuruj" and "jaz" stand for the Arabic keywords
ACK_BOT_CONFIG ==
  [targetToEmail |-> "team-leader@companyname.com",
   labelName |-> "Auto-replied",
   keywords |-> << <<"ijaza">>, <<"mughadara">>, <<"khuruj">>, <<"jaz">> >>]

\* the tokens of a header that /[A-Z0-9._%+-]+@[A-Z0-9.-]+\.[A-Z]{2,}/gi matches
EmailToks ==
  {"team-leader@companyname.com", "Team-Leader@CompanyName.com", "hr@companyname.com"}

\* extractEmails_
extractEmails_(headerValue) ==
  IF headerValue = <<>> THEN <<>> ELSE SelectSeq(headerValue, LAMBDA t : t \in EmailToks)

\* isDirectlyAddressedTo_
isDirectlyAddressedTo_(message, targetEmail) ==
  LET toEmails == toLowerCase(extractEmails_(message.to))
  IN LowerTok(targetEmail) \in Range(toEmails)

\* matchesKeywords_
matchesKeywords_(subject, body, keywords) ==
  LET haystack == subject \o <<"\n">> \o body
  IN \E k \in 1..Len(keywords) : includes(haystack, keywords[k])

\* thread.getMessageCount(), and a variant that always answers 1
getMessageCountAlwaysOne(thread) == 1
getMessageCount(thread) == thread.count

\* buildSearchQuery_ and GmailApp.search: in:inbox is:unread from:companyname.com
\* to:target -cc:target -bcc:target -label:Auto-replied
search(mailbox) ==
  LET matches(t) ==
        /\ mailbox[t].inbox
        /\ mailbox[t].unread
        /\ mailbox[t].fromDomain
        /\ mailbox[t].toTarget
        /\ ~mailbox[t].ccTarget
        /\ ~mailbox[t].labelled
  IN SelectSeq(<<"t1", "t2">>, matches)

\* threads.forEach: the callback returns (or its catch block has logged): on
\* to the next thread of the search result, or the run ends
NextThread(run) ==
  IF run.idx < Len(run.threads)
    THEN [run EXCEPT !.idx = @ + 1, !.pc = "check"]
    ELSE [run EXCEPT !.pc = "idle"]

Thread(to, subject, body, toTarget, ccTarget, count) ==
  [to |-> to, subject |-> subject, body |-> body, fromDomain |-> TRUE,
   toTarget |-> toTarget, ccTarget |-> ccTarget, count |-> count,
   inbox |-> TRUE, unread |-> TRUE, labelled |-> FALSE]

\* a leave request to the team leader; the same with a second message in the
\* thread already; one whose To header names somebody else; one without a
\* keyword; one that copies the team leader
ThreadPool ==
  { Thread(<<"Boss", " ", "<", "Team-Leader@CompanyName.com", ">">>,
           <<"talab", " ", "ijaza">>, <<"salam">>, TRUE, FALSE, 1),
    Thread(<<"team-leader@companyname.com">>, <<"salam">>, <<"khuruj", " ", "mubakkir">>,
           TRUE, FALSE, 2),
    Thread(<<"hr@companyname.com">>, <<"ijaza">>, <<"salam">>, TRUE, FALSE, 1),
    Thread(<<"team-leader@companyname.com">>, <<"salam">>, <<"taqrir">>, TRUE, FALSE, 1),
    Thread(<<"hr@companyname.com">>, <<"ijaza">>, <<"salam">>, FALSE, TRUE, 1) }

InitGmail ==
  /\ mode = "gmail"
  /\ cfg = ACK_BOT_CONFIG
  /\ \E t1 \in ThreadPool, t2 \in ThreadPool : msgs = [t \in {"t1", "t2"} |-> IF t = "t1" THEN t1 ELSE t2]
  /\ history = <<>>
  /\ reacts = <<>>
  /\ bf = [pc |-> "idle", run |-> 0, threads |-> <<>>, idx |-> 0, count |-> 0, examined |-> {}]
  /\ lv = <<>>
  /\ adds = <<>>
  /\ env = [faults |-> 0, mail |-> 0]

\* the time-driven trigger fires: getOrCreateLabel_, buildSearchQuery_,
\* GmailApp.search
Gmail_Trigger ==
  /\ mode = "gmail"
  /\ bf.pc = "idle"
  /\ bf.run < MaxRuns
  /\ LET threads == search(msgs)
         run == [bf EXCEPT !.run = @ + 1, !.threads = threads, !.idx = 1]
     IN bf' = IF threads = <<>> THEN run ELSE [run EXCEPT !.pc = "check"]
  /\ UNCHANGED <<mode, cfg, msgs, history, reacts, lv, adds, env>>

\* the callback up to thread.replyAll: the message count, the To header and
\* the keywords of the first message
Gmail_Check ==
  /\ mode = "gmail"
  /\ bf.pc = "check"
  /\ LET id == bf.threads[bf.idx]
         thread == msgs[id]
         run == [bf EXCEPT !.examined = @ \cup {<<bf.run, id>>}, !.count = thread.count]
     IN bf' = IF getMessageCount(thread) # 1 THEN NextThread(run)
              ELSE IF ~isDirectlyAddressedTo_(thread, cfg.targetToEmail) THEN NextThread(run)
              ELSE IF ~matchesKeywords_(thread.subject, thread.body, cfg.keywords)
                THEN NextThread(run)
              ELSE [run EXCEPT !.pc = "reply"]
  /\ UNCHANGED <<mode, cfg, msgs, history, reacts, lv, adds, env>>

\* a call of the Gmail service made inside the try block throws: the catch
\* block logs and forEach goes on
Gmail_Throws ==
  /\ mode = "gmail"
  /\ bf.pc \in {"reply", "label", "read"}
  /\ env.faults < MaxFaults
  /\ env' = [env EXCEPT !.faults = @ + 1]
  /\ bf' = NextThread(bf)
  /\ UNCHANGED <<mode, cfg, msgs, history, reacts, lv, adds>>

\* thread.replyAll: the reply joins the thread
Gmail_ReplyAll ==
  /\ mode = "gmail"
  /\ bf.pc = "reply"
  /\ LET id == bf.threads[bf.idx]
     IN /\ msgs' = [msgs EXCEPT ![id].count = @ + 1]
        /\ adds' = Append(adds, [thread |-> id, run |-> bf.run, count |-> bf.count])
  /\ bf' = [bf EXCEPT !.pc = "label"]
  /\ UNCHANGED <<mode, cfg, history, reacts, lv, env>>

\* thread.addLabel(label)
Gmail_AddLabel ==
  /\ mode = "gmail"
  /\ bf.pc = "label"
  /\ msgs' = [msgs EXCEPT ![bf.threads[bf.idx]].labelled = TRUE]
  /\ bf' = [bf EXCEPT !.pc = "read"]
  /\ UNCHANGED <<mode, cfg, history, reacts, lv, adds, env>>

\* thread.markRead()
Gmail_MarkRead ==
  /\ mode = "gmail"
  /\ bf.pc = "read"
  /\ msgs' = [msgs EXCEPT ![bf.threads[bf.idx]].unread = FALSE]
  /\ bf' = NextThread(bf)
  /\ UNCHANGED <<mode, cfg, history, reacts, lv, adds, env>>

\* a correspondent writes again in a thread: one more message, unread, in the inbox
Mail_Arrives ==
  /\ mode = "gmail"
  /\ env.mail < MaxMail
  /\ \E id \in DOMAIN msgs :
       msgs' = [msgs EXCEPT ![id].count = @ + 1, ![id].unread = TRUE, ![id].inbox = TRUE]
  /\ env' = [env EXCEPT !.mail = @ + 1]
  /\ UNCHANGED <<mode, cfg, history, reacts, bf, lv, adds>>

\* the owner of the mailbox takes the label off a thread and marks it unread
Owner_Resets ==
  /\ mode = "gmail"
  /\ env.mail < MaxMail
  /\ \E id \in DOMAIN msgs :
       /\ msgs[id].labelled \/ ~msgs[id].unread
       /\ msgs' = [msgs EXCEPT ![id].labelled = FALSE, ![id].unread = TRUE]
  /\ env' = [env EXCEPT !.mail = @ + 1]
  /\ UNCHANGED <<mode, cfg, history, reacts, bf, lv, adds>>

NextGmail ==
  \/ Gmail_Trigger
  \/ Gmail_Check
  \/ Gmail_Throws
  \/ Gmail_ReplyAll
  \/ Gmail_AddLabel
  \/ Gmail_MarkRead
  \/ Mail_Arrives
  \/ Owner_Resets

SpecGmail == InitGmail /\ [][NextGmail]_vars

\* ------------------------------------------------------------ properties

\* every string within a value, at any depth and however many
AllStrings(value) == StringsWithin(value, 1000)

Digits == {"0", "1", "2", "3", "4", "5", "6", "7", "8", "9"}

\* the base name of an emoji name: the name without its skin-tone suffixes
\* (::skin-tone-<digits>, or :skin-tone-<digits>)
BaseName(name) ==
  ReplaceLitPlus(ReplaceLitPlus(name, <<":", ":", "skin-tone-">>, Digits, <<>>),
                 <<":", "skin-tone-">>, Digits, <<>>)

\* a blocklist rule of the configuration matches the name: the name is
\* listed, or contains a listed substring, or matches the regular expression
BlockedByRule(name) ==
  LET n == toLowerCase(trim(name))
  IN \/ \E i \in 1..Len(cfg.SLACK_REACTION_BLACKLIST) :
          n = toLowerCase(trim(cfg.SLACK_REACTION_BLACKLIST[i]))
     \/ \E i \in 1..Len(cfg.SLACK_REACTION_BLACKLIST_CONTAINS) :
          includes(n, toLowerCase(trim(cfg.SLACK_REACTION_BLACKLIST_CONTAINS[i])))
     \/ /\ cfg.SLACK_REACTION_BLACKLIST_REGEX # <<>>
        /\ RegExpTest(cfg.SLACK_REACTION_BLACKLIST_REGEX[1], n)

Programs == mode \in {"backfill", "live"}
AuthorOf(a) == msgs[a.ts].user
AddsOf(run) == SelectSeq(adds, LAMBDA a : a.run = run)

\* C1: in backfill mode and in live mode, no add-action is emitted or issued
\* for a message whose author is the target account of the skip configuration,
\* whatever reactions and content the message has.
C1_NoAddForTargetAuthor ==
  Programs => \A i \in 1..Len(adds) : AuthorOf(adds[i]) # skipCfg.skipUserId

\* a backfill has scanned m1, written by the target account, which carries a
\* reaction the acting account has not added
C1_Witness ==
  /\ mode = "backfill"
  /\ bf.pc = "done"
  /\ msgs["m1"].user = skipCfg.skipUserId
  /\ \E i \in 1..Len(reacts["m1"]) : cfg.authedUserId \notin Range(reacts["m1"][i].users)
  /\ bf.cnt.totalSkippedOwn > 0

\* C2 as stated: for every configuration, SLACK_MY_USER_ID set or not, the
\* acting account (the token's user) never adds a reaction to a message that
\* it wrote itself.
C2_NeverReactsToOwnMessage ==
  Programs => \A i \in 1..Len(adds) : AuthorOf(adds[i]) # cfg.authedUserId

\* C2, amended: when SLACK_MY_USER_ID is unset or names the token's user, the
\* acting account never adds a reaction to a message that it wrote itself.
C2_NeverReactsToOwnMessageUnlessOverridden ==
  (Programs /\ cfg.SLACK_MY_USER_ID \in {None, cfg.authedUserId})
    => \A i \in 1..Len(adds) : AuthorOf(adds[i]) # cfg.authedUserId

\* the watcher has handled the reaction of another user to a message of the
\* acting account, under a configuration that sets SLACK_MY_USER_ID to it
C2_Witness ==
  /\ mode = "live"
  /\ cfg.SLACK_MY_USER_ID = cfg.authedUserId
  /\ \E i \in 1..Len(lv.handlers) :
       /\ lv.handlers[i].ev.item_user = cfg.authedUserId
       /\ lv.handlers[i].ev.type = "reaction_added"
       /\ lv.handlers[i].ev.user # cfg.authedUserId
       /\ lv.handlers[i].result = "skipped"

\* C3: no add-action names an emoji when the reactions of the message, as the
\* program fetched them, hold an entry of the same base name (the base name
\* itself or a skin-tone variant of it) that lists the acting account.
C3_NoAddWhenAlreadyReactedAnyVariant ==
  Programs =>
    \A i \in 1..Len(adds) : \A k \in 1..Len(adds[i].seen) :
      ~ /\ BaseName(adds[i].seen[k].name) = BaseName(adds[i].name)
        /\ cfg.authedUserId \in Range(adds[i].seen[k].users)

\* C4: canonicalizeReactionName returns the base name: the name without any
\* skin-tone suffix, the same for two names that differ only by such a suffix.
C4_CanonicalIsBaseName ==
  (mode = "canonicalize" /\ adds # <<>>) => adds[1].canonical = BaseName(adds[1].name)

\* C5: no add-action names an emoji that a blocklist rule matches (exact
\* name, blocked substring or regular expression), in mirroring, in adding
\* default reactions and in the live watcher.
C5_NoAddForBlockedName ==
  Programs => \A i \in 1..Len(adds) : ~BlockedByRule(adds[i].name)

\* the watcher has dropped an event for a blocked emoji and emitted nothing
C5_Witness ==
  /\ mode = "live"
  /\ \E i \in 1..Len(lv.handlers) :
       lv.handlers[i].result = "blocked" /\ BlockedByRule(lv.handlers[i].ev.reaction)
  /\ adds = <<>>

\* the names the reconciliation of a message with the reactions seen owes an
\* add-action: the base names on the message that are not blocked and that
\* the acting account has not reacted with, in any variant
OwedNames(seen) ==
  {BaseName(seen[k].name) :
     k \in {j \in 1..Len(seen) :
              /\ seen[j].name # <<>>
              /\ ~BlockedByRule(BaseName(seen[j].name))
              /\ \A i \in 1..Len(seen) :
                   BaseName(seen[i].name) = BaseName(seen[j].name)
                     => cfg.authedUserId \notin Range(seen[i].users)}}

\* C6: for a message that no skip rule matches and that has reactions,
\* mirrorReactionsForMessage emits exactly one add-action for each base name
\* on the message that is not blocked and that the acting account has not
\* added, the action names the base name, and there is no other add-action.
C6_OneAddPerCanonicalName ==
  (/\ mode = "backfill"
   /\ bf.last.fn = "mirror"
   /\ bf.last.result.skippedOwnMessage = 0
   /\ bf.last.seen # <<>>)
    => /\ Range(bf.last.emitted) = OwedNames(bf.last.seen)
       /\ Len(bf.last.emitted) = Cardinality(OwedNames(bf.last.seen))

\* the default reactions a message without reactions is owed: the configured
\* list, or the four built-in names when none is configured, without
\* repetitions and without the blocked names
OwedDefaults ==
  LET configured == cfg.SLACK_DEFAULT_REACTIONS
      builtin == << <<"rocket">>, <<"raised_hands">>, <<"saluting_face">>, <<"v">> >>
      list == IF configured # <<>> THEN configured ELSE builtin
      first(i) == \A j \in 1..(i - 1) : list[j] # list[i]
      kept == {i \in 1..Len(list) : first(i) /\ ~BlockedByRule(list[i])}
      F[i \in 0..Len(list)] ==
        IF i = 0 THEN <<>> ELSE IF i \in kept THEN Append(F[i - 1], list[i]) ELSE F[i - 1]
  IN F[Len(list)]

IsPrefix(a, b) == Len(a) <= Len(b) /\ SubSeq(b, 1, Len(a)) = a

\* C7: for a message with no reactions that no skip rule matches, with
\* add-default-reactions enabled, addDefaultReactionsForMessage emits exactly
\* one add-action for each name of the deduplicated default list that is not
\* blocked, and no other: while it runs the names emitted are the first of
\* that list, and when it returns they are the whole list.
C7_OneAddPerDefaultName ==
  /\ (mode = "backfill" /\ bf.call.fn = "default" /\ bf.pc = "add")
       => IsPrefix(bf.call.emitted, OwedDefaults)
  /\ (/\ mode = "backfill"
      /\ bf.last.fn = "default"
      /\ bf.last.result.skippedOwnMessage = 0
      /\ bf.last.result.skippedHasReactions = 0)
       => bf.last.emitted = OwedDefaults

\* C7 example: default list rocket, v (rocket given twice) with
\* v blocked: the call has returned after one add-action, for rocket
C7_Witness ==
  /\ mode = "backfill"
  /\ cfg.SLACK_DEFAULT_REACTIONS = <<Rocket, V, Rocket>>
  /\ BlockedByRule(V)
  /\ bf.last.fn = "default"
  /\ bf.last.seen = <<>>
  /\ bf.last.result.skippedOwnMessage = 0
  /\ bf.last.emitted = <<Rocket>>

\* a text contains one of the configured skip substrings, in any letter case
HasSkipSubstring(text) ==
  \E k \in 1..Len(cfg.SLACK_SKIP_MESSAGE_CONTAINS) :
    includes(toLowerCase(text), toLowerCase(cfg.SLACK_SKIP_MESSAGE_CONTAINS[k]))

\* the message of an add-action as the program fetched it
Fetched(a) == MessageValue([View(a.ts) EXCEPT !.reactions = a.seen], ContentPool)

\* C8 as stated: no add-action is emitted for a message whose content
\* contains, in any letter case, a configured skip substring.
C8_NoAddWhenContentHasSkipSubstring ==
  Programs =>
    \A i \in 1..Len(adds) :
      \A text \in Range(AllStrings(ContentPool[msgs[adds[i].ts].content])) :
        ~HasSkipSubstring(text)

\* C8, amended: no add-action is emitted for a message when one of the
\* strings that the bounded walk of the message collects (the first 600
\* strings found within 8 levels of nesting) contains, in any letter case, a
\* configured skip substring.
C8_NoAddWhenCollectedStringHasSkipSubstring ==
  Programs =>
    \A i \in 1..Len(adds) :
      \A text \in Range(messageContentStrings(Fetched(adds[i]))) : ~HasSkipSubstring(text)

\* a backfill has scanned m1, which carries a reaction of another user and
\* whose text holds the skip substring in another letter case
C8_Witness ==
  /\ mode = "backfill"
  /\ bf.pc = "done"
  /\ msgs["m1"].content = "skipme"
  /\ HasSkipSubstring(TextSkipMe) /\ ~includes(TextSkipMe, cfg.SLACK_SKIP_MESSAGE_CONTAINS[1])
  /\ reacts["m1"] # <<>>
  /\ bf.cnt.totalSkippedOwn > 0

\* a text holds a from-attribution of the skip target: "from:" and then the
\* mention <@ID> of the target's identifier, or one of the target's aliases
\* as a whole (what follows the alias is the end of the text, a blank or a
\* punctuation mark)
HasFromAttribution(text) ==
  LET L == toLowerCase(text)
      starts == AfterFromColon(L)
      whole(p) == p > Len(L) \/ L[p] \in SpaceToks \cup {"(", ")", ".", ":", ">"}
  IN \/ AfterLit(L, starts, <<"<@", LowerTok(skipCfg.skipUserId), ">">>) # {}
     \/ \E a \in 1..Len(skipCfg.skipUserAliases) :
          \E p \in AfterLit(L, starts, toLowerCase(skipCfg.skipUserAliases[a])) : whole(p)

\* C9: no add-action is emitted for a message that has a content string with
\* a from-attribution of the skip target, whatever its reactions and author.
C9_NoAddWhenFromAttribution ==
  Programs =>
    \A i \in 1..Len(adds) :
      \A text \in Range(AllStrings(ContentPool[msgs[adds[i].ts].content])) :
        ~HasFromAttribution(text)

\* the first run of the scan stayed below the budget of --max-adds, if any
BelowAddBudget ==
  cfg.maxReactionsAdds = <<>> \/ Len(AddsOf(1)) < cfg.maxReactionsAdds[1]

\* C10 as stated: when a backfill that is not a dry run completes and the same
\* scan runs again with no reaction by anyone else, the second run issues no
\* add and counts every name the first run added as skipped-already-reacted.
C10_SecondRunAddsNothing ==
  (mode = "backfill" /\ ~cfg.dryRun /\ env.others = 0)
    => /\ \A i \in 1..Len(adds) : adds[i].run = 1
       /\ (bf.run = 2 /\ bf.pc = "done") => bf.cnt.totalSkipped >= Len(AddsOf(1))

\* C10, amended: the same, provided the first run did not end by reaching
\* its --max-adds budget (the option is unset, or the run added less).
C10_SecondRunAddsNothingBelowBudget ==
  (mode = "backfill" /\ ~cfg.dryRun /\ env.others = 0 /\ BelowAddBudget)
    => /\ \A i \in 1..Len(adds) : adds[i].run = 1
       /\ (bf.run = 2 /\ bf.pc = "done") => bf.cnt.totalSkipped >= Len(AddsOf(1))

\* the second run has completed after a first run that added reactions, with
\* a budget that the first run did not reach
C10_Witness ==
  /\ mode = "backfill"
  /\ ~cfg.dryRun
  /\ env.others = 0
  /\ BelowAddBudget
  /\ bf.run = 2
  /\ bf.pc = "done"
  /\ Len(AddsOf(1)) >= 2
  /\ bf.cnt.totalSkipped >= Len(AddsOf(1))

\* a failure carries a retry-after duration: a number of seconds in its
\* field retryAfter or in its field data.retry_after
CarriesRetryAfter(outcome) ==
  /\ outcome.kind = "reject"
  /\ outcome.err.object
  /\ outcome.err.retryAfter.type = "number" \/ outcome.err.retry_after.type = "number"

\* C11: withRateLimitRetry invokes the operation again after every failure
\* that carries a retry-after duration, however many there were; at the first
\* failure that carries none it stops invoking and throws that same error; at
\* the first success it returns that result.
C11_RetriesOnlyOnRetryAfter ==
  mode = "retry" =>
    LET k == bf.calls
        script == cfg.script
    IN /\ \A j \in 1..(k - 1) : CarriesRetryAfter(script[j])
       /\ Len(bf.slept) = Cardinality({j \in 1..k : CarriesRetryAfter(script[j])})
       /\ k = 0 => bf.pc = "call"
       /\ (k > 0 /\ CarriesRetryAfter(script[k])) => bf.pc \in {"sleep", "call"}
       /\ (k > 0 /\ script[k].kind = "resolve")
            => bf.pc = "returned" /\ bf.result = script[k].value
       /\ (k > 0 /\ script[k].kind = "reject" /\ ~CarriesRetryAfter(script[k]))
            => bf.pc = "thrown" /\ bf.thrown = script[k].err

\* the operation was rate-limited twice, once with the duration in
\* data.retry_after, and the third invocation succeeded: its result is returned
C11_Witness ==
  /\ mode = "retry"
  /\ bf.calls = 3
  /\ \E j \in 1..2 : cfg.script[j].err.retry_after.type = "number"
  /\ Len(bf.slept) = 2
  /\ bf.pc = "returned"
  /\ bf.result = "result_a"

\* C12: in a backfill scan, from the step in which the added-reaction counter
\* reaches --max-adds on, no further page of the history is fetched and no
\* further message of the current page is begun, on every path, also when
\* the counter reaches the budget in the replies of a message without
\* reactions; and the scan ends at the first message beyond --max-messages.
C12_BudgetAbortsPagination ==
  [][(mode = "backfill" /\ bf'.run = bf.run) =>
       /\ (cfg.maxReactionsAdds # <<>> /\ bf'.cnt.totalAdds >= cfg.maxReactionsAdds[1])
            => /\ bf'.pc # "history"
               /\ bf'.cnt.processedMessages = bf.cnt.processedMessages
       /\ (cfg.maxMessages # <<>> /\ bf'.cnt.processedMessages > cfg.maxMessages[1])
            => bf'.pc = "done"]_vars

\* C13: with --max-adds N, the reaction adds of a backfill scan (performed,
\* or logged in a dry run) never number more than N.
C13_AddsWithinBudget ==
  (mode = "backfill" /\ cfg.maxReactionsAdds # <<>>)
    => bf.cnt.totalAdds + bf.call.added <= cfg.maxReactionsAdds[1]

\* the number of times a handler has performed an operation
Times(ops, op) == Cardinality({k \in 1..Len(ops) : ops[k] = op})

\* C14: the watcher acknowledges every inbound event exactly once, and the
\* acknowledgement is the first thing its handler does, before any filter
\* and any outbound call, whatever becomes of the event.
C14_AckOnceAndFirst ==
  mode = "live" =>
    \A i \in 1..Len(lv.handlers) :
      /\ Times(lv.handlers[i].ops, "ack") = 1
      /\ lv.handlers[i].ops[1] = "ack"

\* one event was discarded by a filter and another led to an add: both
\* were acknowledged first
C14_Witness ==
  /\ mode = "live"
  /\ \E i, j \in 1..Len(lv.handlers) :
       /\ lv.handlers[i].result = "ignored"
       /\ lv.handlers[i].ops = <<"ack">>
       /\ lv.handlers[j].result = "added"
       /\ lv.handlers[j].ops = <<"ack", "get", "add">>

\* C15: an event whose reacting user is the acting account, or whose channel
\* is not the configured channel filter, causes no outbound call (no fetch of
\* the reactions, no add), so the event of the watcher's own add leads to no
\* further add.
C15_NoCallForOwnOrFilteredEvent ==
  mode = "live" =>
    \A i \in 1..Len(lv.handlers) :
      LET h == lv.handlers[i]
      IN (\/ h.ev.user = cfg.authedUserId
          \/ cfg.SLACK_CHANNEL_ID # None /\ h.ev.channel # cfg.SLACK_CHANNEL_ID)
           => /\ h.pc = "done"
              /\ Times(h.ops, "get") = 0
              /\ Times(h.ops, "add") = 0

\* the watcher has added a reaction and has then received the event of its
\* own add, which it has dropped without a call
C15_Witness ==
  /\ mode = "live"
  /\ \E i, j \in 1..Len(lv.handlers) :
       /\ i < j
       /\ lv.handlers[i].result = "added"
       /\ lv.handlers[j].ev.user = cfg.authedUserId
       /\ lv.handlers[j].ev.reaction = lv.handlers[i].canonicalReaction
       /\ lv.handlers[j].result = "ignored"
       /\ Len(adds) = 1

\* the acting account has a reaction of the base name of e, in any variant
ActedUnderBase(entries, e) ==
  \E k \in 1..Len(entries) :
    /\ BaseName(entries[k].name) = BaseName(e)
    /\ cfg.authedUserId \in Range(entries[k].users)

\* C16: in the watcher, an event for emoji e leads to at most one add, the
\* add names the base name of e and never a skin-tone variant, and a handler
\* that has fetched the message ends without an add only when the acting
\* account has a reaction of that base name on the message.
C16_LiveAddsCanonicalName ==
  mode = "live" =>
    \A i \in 1..Len(lv.handlers) :
      LET h == lv.handlers[i]
      IN /\ Times(h.ops, "add") <= 1
         /\ Times(h.ops, "add") = 1 => h.canonicalReaction = BaseName(h.ev.reaction)
         /\ h.result = "already" => ActedUnderBase(reacts[h.ev.ts], h.ev.reaction)

\* C17: a reaction add that fails with too_many_reactions is logged and
\* skipped and is not fatal: a backfill scan does not end on it, and in the
\* watcher the handler logs it and returns, the process running on.
C17_TooManyReactionsNotFatal ==
  /\ mode = "backfill" => ~(bf.pc = "failed" /\ bf.err = "too_many_reactions")
  /\ mode = "live" =>
       /\ Running
       /\ \A i \in 1..Len(lv.handlers) :
            lv.handlers[i].result = "too_many_reactions"
              => lv.handlers[i].pc = "done" /\ lv.handlers[i].logged = "log"

\* the adds a scan has counted, and the emoji it has counted as already reacted
CountedAdds(b) == b.cnt.totalAdds + b.call.added
CountedAlreadyReacted(b) == b.cnt.totalSkipped + b.call.skippedAlreadyReacted

\* the emoji of the message that the scan went past in a step after the one
\* whose add was answered: those of them that the fetch had shown with a
\* reaction of the acting account are counted as already reacted as well
PassedAfterAnswer(b, after) ==
  LET rest == Tail(b.call.todo)
      left == IF after.pc = "add" /\ after.call.ts = b.call.ts THEN Len(after.call.todo) ELSE 0
  IN SubSeq(rest, 1, Len(rest) - left)

KnownAlreadyReacted(b, names) ==
  Cardinality({k \in 1..Len(names) : names[k] \in b.call.hasAuthed})

\* C18: when reactions.add answers already_reacted, a backfill counts the
\* emoji as skipped-already-reacted and not as added and goes on with the
\* scan without an error; the handler of the watcher returns and logs no error.
C18_AlreadyReactedIsNoError ==
  [][/\ (mode = "backfill" /\ bf.pc = "add" /\ bf' # bf /\ env'.last = "already_reacted")
          => /\ bf'.pc \in {"add", "get", "replies", "history", "done"}
             /\ bf'.err = None
             /\ CountedAlreadyReacted(bf') =
                  CountedAlreadyReacted(bf) + 1 + KnownAlreadyReacted(bf, PassedAfterAnswer(bf, bf'))
             /\ CountedAdds(bf') = CountedAdds(bf)
     /\ mode = "live" =>
          \A i \in 1..Len(lv'.handlers) :
            lv'.handlers[i].result = "already_reacted"
              => /\ lv'.handlers[i].pc = "done"
                 /\ lv'.handlers[i].logged = None
                 /\ ~lv'.handlers[i].rejected]_vars

\* a backfill whose add was answered already_reacted (the owner of the
\* account reacted by hand after the fetch) has completed and counted it
C18_Witness ==
  /\ mode = "backfill"
  /\ bf.pc = "done"
  /\ bf.run = 1
  /\ env.others > 0
  /\ \E i \in 1..Len(adds) :
       /\ adds[i].ts = "m1"
       /\ ~HasReacted(adds[i].seen, adds[i].name, cfg.authedUserId)
       /\ \E j \in (i + 1)..Len(adds) : adds[j].ts # "m1"
  /\ bf.cnt.totalSkipped = 1
  /\ bf.cnt.totalAdds = Len(adds) - 1

\* C19: in the watcher, a failure of the fetch or of the add that is neither
\* a rate limit, already_reacted nor too_many_reactions ends that handler
\* with an error log and without a rethrow; the process keeps running and
\* handles the events that follow.
C19_LiveFailureDropsOneEvent ==
  mode = "live" =>
    /\ Running
    /\ \A i \in 1..Len(lv.handlers) :
         lv.handlers[i].result = "error"
           => /\ lv.handlers[i].pc = "done"
              /\ lv.handlers[i].logged = "error"
              /\ ~lv.handlers[i].rejected

\* the handler of one event failed, and the event that followed was
\* acknowledged and led to an add
C19_Witness ==
  /\ mode = "live"
  /\ \E i, j \in 1..Len(lv.handlers) :
       /\ i < j
       /\ lv.handlers[i].result = "error"
       /\ lv.handlers[j].result = "added"
       /\ lv.handlers[j].ops = <<"ack", "get", "add">>

\* C20: in a dry run a backfill issues no reactions.add, the reactions of
\* every message stay as they were (nobody else reacting), and every
\* would-be add is logged and counted.
C20_DryRunAddsNothing ==
  [][(mode = "backfill" /\ cfg.dryRun /\ env'.others = env.others)
       => /\ reacts' = reacts
          /\ bf'.pc # "add"
          /\ \A i \in 1..Len(adds') : adds'[i].dry
          /\ CountedAdds(bf') = Len(SelectSeq(adds', LAMBDA a : a.run = bf'.run))]_vars

\* a dry run has completed: it has logged the default reactions for m3,
\* which still has no reaction
C20_Witness ==
  /\ mode = "backfill"
  /\ cfg.dryRun
  /\ bf.pc = "done"
  /\ \E i \in 1..Len(adds) : adds[i].ts = "m3" /\ adds[i].dry
  /\ reacts["m3"] = <<>>
  /\ bf.cnt.totalAdds = Len(AddsOf(bf.run))

\* the outbound calls in flight: the one main is suspended on in a backfill,
\* and for each handler of the watcher the calls issued and not yet answered
CallsOf(h) == Times(h.ops, "get") + Times(h.ops, "add")
InFlightOf(h) == CallsOf(h) - h.answered
RECURSIVE SumInFlight(_)
SumInFlight(hs) == IF hs = <<>> THEN 0 ELSE InFlightOf(Head(hs)) + SumInFlight(Tail(hs))
InFlight ==
  IF mode = "backfill"
    THEN (IF bf.pc \in {"history", "replies", "get", "add"} THEN 1 ELSE 0)
    ELSE SumInFlight(lv.handlers)

\* C21 as stated: at every moment of a backfill and of a watcher at most one
\* outbound call is in flight, also when the watcher receives an event while
\* the handler of an earlier event is suspended on a call.
C21_OneCallInFlight ==
  Programs => InFlight <= 1

\* C21, amended: a backfill has at most one outbound call in flight; in the
\* watcher each handler has at most one call in flight and none once it has
\* returned, while the calls of the handlers of different events overlap.
C21_OneCallInFlightPerHandler ==
  /\ mode = "backfill" => InFlight <= 1
  /\ mode = "live" =>
       \A i \in 1..Len(lv.handlers) :
         /\ InFlightOf(lv.handlers[i]) \in {0, 1}
         /\ lv.handlers[i].pc = "done" => InFlightOf(lv.handlers[i]) = 0

\* the watcher received a second event while the handler of the first was
\* suspended on its fetch: two fetches are in flight
C21_Witness ==
  /\ mode = "live"
  /\ Len(lv.handlers) = 2
  /\ lv.handlers[1].pc = "get"
  /\ lv.handlers[2].pc = "get"
  /\ InFlight = 2

\* the reactions of the acting account on a message under one base name
ActingReactionsUnder(entries, base) ==
  {k \in 1..Len(entries) :
     BaseName(entries[k].name) = base /\ cfg.authedUserId \in Range(entries[k].users)}

\* the handler has taken its event through every filter and has returned
Reconciled(h) ==
  h.pc = "done" /\ h.result \in {"added", "already", "already_reacted", "error", "too_many_reactions"}

\* C22: when the watcher has handled two events for the same message and the
\* same base emoji, in whatever order their handlers ran (the remote answering
\* every call), the message holds exactly one reaction of that base emoji from
\* the acting account, and neither handler has logged an error or thrown.
C22_BackstopLeavesOneReaction ==
  (mode = "live" /\ ~env.flaky) =>
    \A i, j \in 1..Len(lv.handlers) :
      LET a == lv.handlers[i]
          b == lv.handlers[j]
      IN (/\ i < j
          /\ a.ev.ts = b.ev.ts
          /\ BaseName(a.ev.reaction) = BaseName(b.ev.reaction)
          /\ Reconciled(a)
          /\ Reconciled(b))
           => /\ Cardinality(ActingReactionsUnder(reacts[a.ev.ts], BaseName(a.ev.reaction))) = 1
              /\ a.logged # "error" /\ b.logged # "error"
              /\ ~a.rejected /\ ~b.rejected

\* C23: in a backfill without --add-default-reactions, a top-level message or
\* thread reply that carries no reaction has received no add-action, and every
\* add-action made is a mirror of a non-empty fetched reaction list.
C23_NoAddToBareMessageWithoutDefaults ==
  (mode = "backfill" /\ ~cfg.addDefaultReactions) =>
    /\ \A m \in DOMAIN reacts :
         reacts[m] = <<>> => \A k \in 1..Len(adds) : adds[k].ts # m
    /\ \A k \in 1..Len(adds) : adds[k].kind = "mirror" /\ adds[k].seen # <<>>

\* a scan without --add-default-reactions has completed: it has handled the
\* bare message m3 and has mirrored reactions elsewhere
C23_Witness ==
  /\ mode = "backfill"
  /\ ~cfg.addDefaultReactions
  /\ bf.pc = "done"
  /\ reacts["m3"] = <<>>
  /\ \E k \in 1..Len(bf.order) : bf.order[k] = "m3"
  /\ adds # <<>>

\* the replies the bot has sent to a thread
RepliesTo(id) == {k \in 1..Len(adds) : adds[k].thread = id}

\* C24: over the runs of autoAcknowledgeTeamLeaderInbox a thread has received
\* at most one automatic reply, every reply went to a thread whose message
\* count the run had read as exactly one, and a thread that was replied to
\* holds more than one message from then on.
C24_OneReplyPerThread ==
  mode = "gmail" =>
    /\ \A id \in DOMAIN msgs : Cardinality(RepliesTo(id)) <= 1
    /\ \A k \in 1..Len(adds) : adds[k].count = 1 /\ msgs[adds[k].thread].count >= 2

\* a thread was replied to in one run and a later run has found it by the
\* search again and has examined it
C24_Witness ==
  /\ mode = "gmail"
  /\ bf.pc = "idle"
  /\ \E k \in 1..Len(adds) :
       /\ adds[k].run < bf.run
       /\ <<bf.run, adds[k].thread>> \in bf.examined

\* a reaction of the list carries the canonical name
Carries(reactions, canonical) ==
  \E k \in 1..Len(reactions) :
    reactions[k].name # <<>> /\ canonicalizeReactionName(reactions[k].name) = canonical

\* the reconciliation of the backfill, given the message as fetched, emits an
\* add-action for the canonical name: the message is not skipped, carries the
\* name, the acting account has not reacted with it and it is not blocked
BackfillWouldEmit(view, canonical) ==
  /\ Carries(view.reactions, canonical)
  /\ ~\E k \in 1..Len(view.reactions) :
        /\ view.reactions[k].name # <<>>
        /\ canonicalizeReactionName(view.reactions[k].name) = canonical
        /\ cfg.authedUserId \in Range(view.reactions[k].users)
  /\ ~isReactionBlocked(canonical, reactionFilterCfg)
  /\ ~shouldSkipMessage(view, skipCfg).skip

\* what the backfill emits is what BackfillWouldEmit says: when a call of
\* mirrorReactionsForMessage returns, the add-actions it has emitted
BackfillEmitsAsSaid ==
  (mode = "backfill" /\ bf'.last # bf.last /\ bf'.last.fn = "mirror") =>
    \A view \in {[View(bf'.last.ts) EXCEPT !.reactions = bf'.last.seen]} :
      LET names == {canonicalizeReactionName(view.reactions[k].name) : k \in 1..Len(view.reactions)}
                     \cup {Rocket, V, RaisedHands}
      IN /\ \A c \in Range(bf'.last.emitted) : c \in names /\ BackfillWouldEmit(view, c)
         /\ \A c \in names \ Range(bf'.last.emitted) : ~BackfillWouldEmit(view, c)

\* a reaction_added event on a message of the watched channel whose handler
\* has decided: it has issued the add, or has returned without an error
Decided(h) ==
  /\ h.ev.type = "reaction_added"
  /\ h.ev.item_type = "message"
  /\ cfg.SLACK_CHANNEL_ID \in {None, h.ev.channel}
  /\ \/ Times(h.ops, "add") > 0
     \/ h.pc = "done" /\ h.result \in {"ignored", "blocked", "skipped", "already"}

\* handler i decides in this step
Decides(i) ==
  /\ Decided(lv'.handlers[i])
  /\ i <= Len(lv.handlers) => ~Decided(lv.handlers[i])

\* the message state the handler decided on: the one it fetched, or (having
\* returned before the fetch) the state of the remote
StateOf(h) ==
  IF h.answered = 0 THEN View(h.ev.ts) ELSE [View(h.ev.ts) EXCEPT !.reactions = h.seen]

\* C25: whenever the handler of an event decides, it issues the add of the
\* canonical name of the event's emoji exactly when the backfill
\* reconciliation of the same message state would emit an add-action for it.
C25_LiveAddsIffBackfillEmits ==
  [][/\ BackfillEmitsAsSaid
     /\ mode = "live" =>
          \A i \in 1..Len(lv'.handlers) :
            Decides(i) =>
              \A h \in {lv'.handlers[i]} :
                \A view \in {StateOf(h)}, canonical \in {canonicalizeReactionName(h.ev.reaction)} :
                  Times(h.ops, "add") > 0 <=> BackfillWouldEmit(view, canonical)]_vars

\* C25 for the events whose emoji is still on the message when the handler
\* fetches its reactions
C25_LiveAddsIffBackfillEmitsWhileCarried ==
  [][/\ BackfillEmitsAsSaid
     /\ mode = "live" =>
          \A i \in 1..Len(lv'.handlers) :
            Decides(i) =>
              \A h \in {lv'.handlers[i]} :
                \A view \in {StateOf(h)}, canonical \in {canonicalizeReactionName(h.ev.reaction)} :
                  Carries(view.reactions, canonical) =>
                    (Times(h.ops, "add") > 0 <=> BackfillWouldEmit(view, canonical))]_vars

\* the watcher has added an emoji for one event and has found it already
\* present for another, both times with the emoji on the message
C25_Witness ==
  /\ mode = "live"
  /\ \E i, j \in 1..Len(lv.handlers) :
       LET a == lv.handlers[i]
           b == lv.handlers[j]
       IN /\ Decided(a) /\ a.result = "added"
          /\ Carries(a.seen, canonicalizeReactionName(a.ev.reaction))
          /\ Decided(b) /\ b.result = "already"
          /\ Carries(b.seen, canonicalizeReactionName(b.ev.reaction))

\* the pages of conversations.history, one after the other
RECURSIVE Flatten(_)
Flatten(pages) == IF pages = <<>> THEN <<>> ELSE Head(pages) \o Flatten(Tail(pages))

\* the cursors the remote has returned with the pages: none with the last one
Cursors == [k \in 1..Len(history) |-> IF k < Len(history) THEN <<k + 1>> ELSE <<>>]

NoBudgetNoFailure ==
  /\ mode = "backfill"
  /\ cfg.maxMessages = <<>>
  /\ cfg.maxReactionsAdds = <<>>
  /\ ~env.flaky

\* C26: in a backfill without budget and without remote failure, the messages
\* handled so far are a prefix of the messages of the history pages in page
\* and message order, each page was requested with the cursor returned with
\* the page before it (the first without cursor), and the scan has ended
\* exactly when every message was handled and the last page, which carries no
\* cursor, was the last one requested.
C26_PagesInOrderToTheEnd ==
  NoBudgetNoFailure =>
    /\ IsPrefix(bf.order, Flatten(history))
    /\ Len(bf.fetched) <= Len(history)
    /\ bf.fetched[1] = <<>>
    /\ \A k \in 2..Len(bf.fetched) : bf.fetched[k] = Cursors[k - 1]
    /\ bf.pc # "failed"
    /\ bf.pc = "done" => bf.order = Flatten(history) /\ Len(bf.fetched) = Len(history)

\* a scan without budget has ended after both pages of the history
C26_Witness ==
  /\ NoBudgetNoFailure
  /\ bf.pc = "done"
  /\ bf.order = <<"m1", "m2", "m3">>
  /\ bf.fetched = << <<>>, <<2>> >>

\* the decision for a message as listed: nothing for a skipped message, the
\* mirror for one with reactions, the defaults for one without when enabled
DecisionFor(view) ==
  IF shouldSkipMessage(view, skipCfg).skip THEN None
  ELSE IF view.reactions # <<>> THEN "mirror"
  ELSE IF cfg.addDefaultReactions THEN "default"
  ELSE None

\* the messages of the window that are thread replies
AllReplies == {m \in DOMAIN msgs : msgs[m].parent # None}

\* C27: a thread is fetched only when thread replies are included and its
\* parent reports replies; the call made for a reply is the one the decision
\* for a top-level message gives (and so is the call made for a top-level
\* message); no call made for a reply is for the root of its thread and no
\* message is reconciled twice in a run; a completed scan without budget or
\* failure has reconciled exactly the replies for which the decision gives a call.
C27_RepliesAsTopLevelMessages ==
  mode = "backfill" =>
    /\ bf.pc = "replies" => cfg.includeThreadReplies /\ bf.page[bf.idx].reply_count > 0
    /\ \A k \in 1..Len(bf.threads) :
         cfg.includeThreadReplies /\ Replies(bf.threads[k]) # <<>>
    /\ bf.pc \in {"get", "add"} =>
         LET view == IF bf.call.ret = "top" THEN bf.page[bf.idx] ELSE bf.replies[bf.ridx]
         IN view.ts = bf.call.ts /\ bf.call.fn = DecisionFor(view)
    /\ \A k \in 1..Len(bf.calls) :
         /\ bf.calls[k].ret = "reply" =>
              bf.calls[k].ts # bf.calls[k].root /\ msgs[bf.calls[k].ts].parent = bf.calls[k].root
         /\ bf.calls[k].ret = "top" => bf.calls[k].ts = bf.calls[k].root
         /\ \A j \in 1..Len(bf.calls) : bf.calls[j].ts = bf.calls[k].ts => j = k
    /\ (NoBudgetNoFailure /\ env.quiet /\ bf.pc = "done") =>
         \A m \in AllReplies :
           (\E k \in 1..Len(bf.calls) : bf.calls[k].ts = m)
             <=> /\ cfg.includeThreadReplies
                 /\ ~shouldSkipMessage(View(m), skipCfg).skip
                 /\ (reacts[m] # <<>> \/ cfg.addDefaultReactions)

\* a scan has fetched the thread of m1 and has given its reply m4, which
\* carried no reaction, the default reactions
C27_Witness ==
  /\ mode = "backfill"
  /\ bf.pc = "done"
  /\ bf.threads = <<"m1">>
  /\ \E k \in 1..Len(bf.calls) :
       bf.calls[k] = [ts |-> "m4", fn |-> "default", ret |-> "reply", root |-> "m1"]
  /\ \E k \in 1..Len(bf.calls) : bf.calls[k].ts = "m1" /\ bf.calls[k].fn = "default"

\* C28: with --max-messages N a scan has handled at most N top-level
\* messages, and the messages-processed count it reports when it ends is at
\* most N and is the number of top-level messages it has handled.
C28_MaxMessagesBoundsReportedCount ==
  (mode = "backfill" /\ cfg.maxMessages # <<>>) =>
    /\ Len(bf.order) <= cfg.maxMessages[1]
    /\ bf.pc = "done" =>
         /\ bf.cnt.processedMessages <= cfg.maxMessages[1]
         /\ bf.cnt.processedMessages = Len(bf.order)

\* the call of addDefaultReactionsForMessage that returned last had fetched
\* at least one reaction on a message it did not skip
DefaultsFoundReactions ==
  /\ mode = "backfill"
  /\ bf.last.fn = "default"
  /\ bf.last.seen # <<>>
  /\ ~shouldSkipMessage([View(bf.last.ts) EXCEPT !.reactions = bf.last.seen], skipCfg).skip

\* C29: every default add-action was decided on a fetched reaction list that
\* was empty; a call of addDefaultReactionsForMessage that fetched at least
\* one reaction has emitted no add-action and has returned one
\* skipped-has-reactions, which main has added to its total.
C29_DefaultsDecidedOnFetchedState ==
  mode = "backfill" =>
    /\ \A k \in 1..Len(adds) : adds[k].kind = "default" => adds[k].seen = <<>>
    /\ DefaultsFoundReactions =>
         /\ bf.last.emitted = <<>>
         /\ bf.last.result = Result(0, 0, 0, 1, 0)
         /\ bf.cnt.totalSkippedHasReactions >= 1

\* the history page showed m1 without reactions, somebody reacted, and the
\* call for m1 has returned
C29_Witness ==
  /\ DefaultsFoundReactions
  /\ bf.last.ts = "m1"
  /\ \E k \in 1..Len(bf.page) : bf.page[k].ts = "m1" /\ bf.page[k].reactions = <<>>
  /\ \A k \in 1..Len(adds) : adds[k].ts # "m1"

\* the remote stops rate-limiting: some invocation succeeds or fails without
\* a retry-after duration; the first such invocation
RateLimitsEnd == \E j \in 1..Len(cfg.script) : ~CarriesRetryAfter(cfg.script[j])
FirstOther ==
  CHOOSE j \in 1..Len(cfg.script) :
    /\ ~CarriesRetryAfter(cfg.script[j])
    /\ \A i \in 1..(j - 1) : CarriesRetryAfter(cfg.script[i])

Ended == bf.pc \in {"returned", "thrown"}

\* the wrapper has ended with the outcome of invocation j, the last it made
EndedAs(j) ==
  /\ bf.calls = j
  /\ IF cfg.script[j].kind = "resolve"
       THEN bf.pc = "returned" /\ bf.result = cfg.script[j].value
       ELSE bf.pc = "thrown" /\ bf.thrown = cfg.script[j].err

\* C30: when the first k invocations are rate-limited and invocation k+1 is
\* not, withRateLimitRetry ends, it ends only with the outcome of invocation
\* k+1 and it never invokes the operation more than k+1 times; as long as
\* every invocation is rate-limited it neither returns nor throws.
C30_EndsAfterTheLastRateLimit ==
  /\ [](mode = "retry" => (Ended => RateLimitsEnd /\ EndedAs(FirstOther)))
  /\ [](mode = "retry" => (RateLimitsEnd => bf.calls <= FirstOther))
  /\ (mode = "retry" /\ RateLimitsEnd) ~> (Ended /\ EndedAs(FirstOther))

\* two rate limits, then a failure without retry-after duration: thrown after
\* three invocations
C30_Witness ==
  /\ mode = "retry"
  /\ Len(cfg.script) = 3
  /\ RateLimitsEnd
  /\ FirstOther = 3
  /\ cfg.script[3].kind = "reject"
  /\ EndedAs(3)
  /\ Len(bf.slept) = 2

====
